---- MODULE Spec2Model ----
(***************************************************************************)
(* zod-form: the schema parser (core/schema-parser.js) and the validation  *)
(* utilities (core/validation.js), as state machines.                      *)
(*                                                                         *)
(* A Zod node is a record carrying its typeName (what `instanceof z.ZodX`  *)
(* tests) and the fields of its _def that the code reads.  A JavaScript    *)
(* object whose key order matters is a sequence of [key, value] entries.   *)
(***************************************************************************)
EXTENDS Integers, Sequences, FiniteSets, TLC

VARIABLES
    call,       \* the schema-parser call in progress: [op, arg, basePath]
    ret,        \* what that call returned
    req,        \* the request the validation middleware is handling
    caught,     \* what schema.parse threw into the middleware's catch block
    res,        \* the response: status, kind of body, body, number of sends
    nextCalls,  \* the arguments next() was called with, in order
    handler,    \* the downstream route handler: "idle", "ran", "threw"
    vcall,      \* the validateField call in progress: [schema, fieldPath, value]
    vret,       \* what validateField returned, or the exception it threw
    doc,        \* the page in the browser: its forms' options, load phase, listeners
    dom,        \* the rendered fields of each form on the page
    timers,     \* the pending setTimeout callbacks, in the order they were set
    console,    \* the warnings the page's scripts have logged
    submitted,  \* what the submit listeners did with the last submit event
    arrayField  \* one array control in the browser: its items and its script's state

vars == <<call, ret, req, caught, res, nextCalls, handler, vcall, vret,
          doc, dom, timers, console, submitted, arrayField>>

parserVars == <<call, ret>>
bridgeVars == <<req, caught, res, nextCalls, handler, vcall, vret>>
pageVars == <<doc, dom, timers, console, submitted>>
arrayVars == <<arrayField>>

----------------------------------------------------------------------------
(* Bounds of the model. *)

MaxChecks == 3      \* checks chained on one string or number node
MaxProps == 2       \* properties of an object schema given to parseSchema
MaxTimers == 3      \* setTimeout callbacks pending at one time
MaxItems == 4       \* items one array control is given, rendered and added
MaxRequests == 2    \* add-item requests in flight at one time

----------------------------------------------------------------------------
(* Sequence helpers. *)

RECURSIVE SeqsUpTo(_, _)
SeqsUpTo(S, n) ==
    IF n = 0 THEN {<<>>}
    ELSE LET shorter == SeqsUpTo(S, n - 1)
         IN  shorter \cup {Append(s, x) : s \in {t \in shorter : Len(t) = n - 1}, x \in S}

Distinct(s) == \A i, j \in 1..Len(s) : i # j => s[i] # s[j]

\* An empty JavaScript object literal {} used as a key/value bag.
EmptyObj == <<>>

\* JavaScript values as the validator sees them.
Undef == [t |-> "undefined"]
Str(s) == [t |-> "string", s |-> s]
Num(n) == [t |-> "number", n |-> n]
Obj(entries) == [t |-> "object", entries |-> entries]
Arr(items) == [t |-> "array", items |-> items]

----------------------------------------------------------------------------
(* Zod nodes (the zod library's classes, read through _def). *)

Chk(kind, value) == [kind |-> kind, value |-> value, message |-> ""]
ChkMsg(kind, value, message) == [kind |-> kind, value |-> value, message |-> message]

ZString(checks) == [typeName |-> "ZodString", checks |-> checks]
ZNumber(checks) == [typeName |-> "ZodNumber", checks |-> checks]
ZBoolean == [typeName |-> "ZodBoolean"]
ZDate == [typeName |-> "ZodDate"]
ZEnum(values) == [typeName |-> "ZodEnum", values |-> values]
ZArray(type) == [typeName |-> "ZodArray", type |-> type]
ZObject(keys, props) == [typeName |-> "ZodObject", keys |-> keys, props |-> props]
ZUnion(options) == [typeName |-> "ZodUnion", options |-> options]
ZRecord(valueType) == [typeName |-> "ZodRecord", valueType |-> valueType]
ZEffects(schema, effect) == [typeName |-> "ZodEffects", schema |-> schema, effect |-> effect]
ZOptional(inner) == [typeName |-> "ZodOptional", innerType |-> inner]
ZNullable(inner) == [typeName |-> "ZodNullable", innerType |-> inner]
\* A node class the parser has no branch for (ZodBigInt, ZodLiteral, ZodAny, ...).
ZOther(typeName) == [typeName |-> typeName]

----------------------------------------------------------------------------
(* JavaScript objects with insertion-ordered keys: sequences of entries.   *)
(* The keys used here are field names, never integer-like strings, so      *)
(* insertion order is the enumeration order.                               *)

HasKey(obj, key) == \E i \in 1..Len(obj) : obj[i].key = key

\* obj[key], or "undefined"
Get(obj, key) ==
    IF HasKey(obj, key)
    THEN obj[CHOOSE i \in 1..Len(obj) : obj[i].key = key].value
    ELSE "undefined"

\* obj[key] = value: an existing key keeps its place, a new key goes last
ObjSet(obj, key, value) ==
    IF HasKey(obj, key)
    THEN [i \in 1..Len(obj) |->
            IF obj[i].key = key THEN [key |-> key, value |-> value] ELSE obj[i]]
    ELSE Append(obj, [key |-> key, value |-> value])

ObjKeys(obj) == [i \in 1..Len(obj) |-> obj[i].key]

----------------------------------------------------------------------------
(* core/schema-parser.js *)

TextareaMinLength == 100
RangeMaxSpan == 10

UuidPattern == "^[0-9a-fA-F]{8}-[0-9a-fA-F]{4}-[0-9a-fA-F]{4}-[0-9a-fA-F]{4}-[0-9a-fA-F]{12}$"

\* The threshold taken as exclusive.
IsLongText_Exclusive(check) == check.kind = "min" /\ check.value > TextareaMinLength

\* check.kind === 'min' && check.value >= 100
IsLongText(check) == check.kind = "min" /\ check.value >= TextareaMinLength

\* The loop over a string node's checks: the first check that decides returns.
RECURSIVE StringCheckLoop(_, _)
StringCheckLoop(checks, i) ==
    IF i > Len(checks) THEN [type |-> "text"]
    ELSE LET check == checks[i]
         IN  IF check.kind = "email" THEN [type |-> "email"]
             ELSE IF check.kind = "url" THEN [type |-> "url"]
             ELSE IF check.kind = "uuid" THEN [type |-> "text", pattern |-> UuidPattern]
             ELSE IF IsLongText(check) THEN [type |-> "textarea"]
             ELSE StringCheckLoop(checks, i + 1)

StringFieldType(checks) == StringCheckLoop(checks, 1)

\* checks.find(check => check.kind === kind): the index of the first, or 0
FindCheck(checks, kind) ==
    IF \E i \in 1..Len(checks) : checks[i].kind = kind
    THEN CHOOSE i \in 1..Len(checks) :
            /\ checks[i].kind = kind
            /\ \A j \in 1..(i - 1) : checks[j].kind # kind
    ELSE 0

\* The span compared with < in place of <=.
NumberFieldType_StrictSpan(checks) ==
    LET minCheck == FindCheck(checks, "min")
        maxCheck == FindCheck(checks, "max")
    IN  IF /\ minCheck # 0
           /\ maxCheck # 0
           /\ checks[maxCheck].value - checks[minCheck].value < RangeMaxSpan
        THEN [type |-> "range", min |-> checks[minCheck].value, max |-> checks[maxCheck].value]
        ELSE [type |-> "number"]

NumberFieldType(checks) ==
    LET minCheck == FindCheck(checks, "min")
        maxCheck == FindCheck(checks, "max")
    IN  IF /\ minCheck # 0
           /\ maxCheck # 0
           /\ checks[maxCheck].value - checks[minCheck].value <= RangeMaxSpan
        THEN [type |-> "range", min |-> checks[minCheck].value, max |-> checks[maxCheck].value]
        ELSE [type |-> "number"]

\* value.charAt(0).toUpperCase() + value.slice(1), on the enum values used here
Capitalize(value) ==
    CASE value = "employed" -> "Employed"
      [] value = "student" -> "Student"
      [] OTHER -> value

\* An unsupported node rejected with an exception.
DefaultFieldType_Throws == [threw |-> "Error: unsupported schema type"]

\* The last return of mapZodTypeToHtmlElement.
DefaultFieldType == [type |-> "text"]

RECURSIVE mapZodTypeToHtmlElement(_, _), parseSchema(_, _), extractValidationRules(_)

mapZodTypeToHtmlElement(zodType, path) ==
    CASE zodType.typeName = "ZodString" -> StringFieldType(zodType.checks)
      [] zodType.typeName = "ZodNumber" -> NumberFieldType(zodType.checks)
      [] zodType.typeName = "ZodBoolean" -> [type |-> "checkbox"]
      [] zodType.typeName = "ZodDate" -> [type |-> "date"]
      [] zodType.typeName = "ZodEnum" ->
            [type |-> "select",
             options |-> [i \in 1..Len(zodType.values) |->
                            [value |-> zodType.values[i],
                             label |-> Capitalize(zodType.values[i])]]]
      [] zodType.typeName = "ZodArray" ->
            [type |-> "array",
             itemType |-> mapZodTypeToHtmlElement(zodType.type, path \o ".items")]
      [] zodType.typeName = "ZodObject" ->
            [type |-> "object", fields |-> parseSchema(zodType, path)]
      [] zodType.typeName = "ZodUnion" ->
            [type |-> "radio",
             options |-> [i \in 1..Len(zodType.options) |->
                            [value |-> ToString(i - 1),
                             label |-> "Option " \o ToString(i),
                             schema |-> zodType.options[i]]]]
      [] zodType.typeName = "ZodRecord" ->
            [type |-> "record",
             valueType |-> mapZodTypeToHtmlElement(zodType.valueType, path \o ".values")]
      [] zodType.typeName = "ZodEffects" /\ zodType.effect = "refinement" ->
            mapZodTypeToHtmlElement(zodType.schema, path)
      [] zodType.typeName \in {"ZodNullable", "ZodOptional"} ->
            \* innerType.optional = true
            [optional |-> TRUE] @@ mapZodTypeToHtmlElement(zodType.innerType, path)
      [] zodType.typeName = "ZodInstance" /\ zodType.cls = "File" -> [type |-> "file"]
      [] OTHER -> DefaultFieldType

\* The loop over a string node's checks in extractValidationRules.
RECURSIVE StringRules(_, _, _)
StringRules(checks, i, rules) ==
    IF i > Len(checks) THEN rules
    ELSE LET check == checks[i]
             r == CASE check.kind = "min" -> ObjSet(rules, "minLength", check.value)
                    [] check.kind = "max" -> ObjSet(rules, "maxLength", check.value)
                    [] check.kind = "email" -> ObjSet(rules, "email", TRUE)
                    [] check.kind = "url" -> ObjSet(rules, "url", TRUE)
                    [] check.kind = "regex" -> ObjSet(rules, "pattern", check.regex)
                    [] OTHER -> rules
         IN  StringRules(checks, i + 1, r)

\* The loop over a number node's checks in extractValidationRules.
RECURSIVE NumberRules(_, _, _)
NumberRules(checks, i, rules) ==
    IF i > Len(checks) THEN rules
    ELSE LET check == checks[i]
             r == CASE check.kind = "min" -> ObjSet(rules, "min", check.value)
                    [] check.kind = "max" -> ObjSet(rules, "max", check.value)
                    [] check.kind = "int" -> ObjSet(rules, "integer", TRUE)
                    [] check.kind = "multipleOf" -> ObjSet(rules, "step", check.value)
                    [] OTHER -> rules
         IN  NumberRules(checks, i + 1, r)

extractValidationRules(zodType) ==
    LET rules == CASE zodType.typeName = "ZodString" -> StringRules(zodType.checks, 1, EmptyObj)
                   [] zodType.typeName = "ZodNumber" -> NumberRules(zodType.checks, 1, EmptyObj)
                   [] OTHER -> EmptyObj
    IN  IF zodType.typeName \in {"ZodOptional", "ZodNullable"}
        THEN \* { ...extractValidationRules(zodType.unwrap()), required: false }
             ObjSet(extractValidationRules(zodType.innerType), "required", FALSE)
        ELSE IF zodType.typeName = "ZodEffects" /\ zodType.effect = "refinement"
        THEN extractValidationRules(zodType.schema)
        ELSE ObjSet(rules, "required", TRUE)

extractErrorMessages(zodType) ==
    IF "errorMap" \in DOMAIN zodType THEN ObjSet(EmptyObj, "custom", TRUE) ELSE EmptyObj

\* The key left out of a nested path.
FieldPath_NoKey(basePath, key) == IF basePath # "" THEN basePath ELSE key

\* const fieldPath = basePath ? `${basePath}.${key}` : key
FieldPath(basePath, key) == IF basePath # "" THEN basePath \o "." \o key ELSE key

\* The body of the forEach callback: the descriptor stored under fields[key].
\* A spread {name, path, ...fieldType, validation, errors, _zodType}: later keys win.
FieldDescriptor(key, zodType, basePath) ==
    LET fieldPath == FieldPath(basePath, key)
        fieldType == mapZodTypeToHtmlElement(zodType, fieldPath)
    IN  [validation |-> extractValidationRules(zodType),
         errors |-> extractErrorMessages(zodType),
         _zodType |-> zodType]
        @@ fieldType
        @@ [name |-> key, path |-> fieldPath]

RECURSIVE ParseShape(_, _, _, _)
ParseShape(schema, basePath, i, fields) ==
    IF i > Len(schema.keys) THEN fields
    ELSE ParseShape(schema, basePath, i + 1,
                    ObjSet(fields, schema.keys[i],
                           FieldDescriptor(schema.keys[i], schema.props[i], basePath)))

parseSchema(schema, basePath) ==
    IF schema.typeName = "ZodObject"
    THEN ParseShape(schema, basePath, 1, EmptyObj)
    ELSE EmptyObj

----------------------------------------------------------------------------
(* The schema nodes the parser is applied to. *)

ChkRegex(source) == [kind |-> "regex", value |-> 0, message |-> "", regex |-> source]

StringChecks ==
    {Chk("min", 2), Chk("min", 100), Chk("min", 150), Chk("max", 50),
     Chk("email", 0), Chk("url", 0), Chk("uuid", 0), ChkRegex("^[a-z]+$")}

NumberChecks ==
    {Chk("min", 0), Chk("min", 1), Chk("min", 18), Chk("max", 5), Chk("max", 11),
     Chk("int", 0), Chk("multipleOf", 2)}

StringNodes == {ZString(c) : c \in SeqsUpTo(StringChecks, MaxChecks)}
NumberNodes == {ZNumber(c) : c \in SeqsUpTo(NumberChecks, MaxChecks)}

KnownTypeNames ==
    {"ZodString", "ZodNumber", "ZodBoolean", "ZodDate", "ZodEnum", "ZodArray",
     "ZodObject", "ZodUnion", "ZodRecord", "ZodNullable", "ZodOptional"}

\* Nodes of classes the parser has no branch for: other zod classes, a
\* transform (a ZodEffects that is no refinement), an instance check of a
\* class other than File.
UnknownNodes ==
    {ZOther(t) : t \in {"ZodBigInt", "ZodLiteral", "ZodAny", "ZodTuple", "ZodDefault"}}
    \cup {ZEffects(n, "transform") : n \in {ZString(<<Chk("email", 0)>>), ZNumber(<<>>), ZBoolean}}
    \cup {[typeName |-> "ZodInstance", cls |-> "Buffer"]}

\* Whether a node is of unknown kind once refinements are looked through.
RECURSIVE IsUnknownKind(_)
IsUnknownKind(zodType) ==
    IF zodType.typeName = "ZodEffects" /\ zodType.effect = "refinement"
    THEN IsUnknownKind(zodType.schema)
    ELSE /\ zodType.typeName \notin KnownTypeNames
         /\ ~(zodType.typeName = "ZodInstance" /\ zodType.cls = "File")

StructuredNodes ==
    {ZBoolean, ZDate, ZEnum(<<"employed", "student">>),
     ZArray(ZString(<<>>)), ZArray(ZOther("ZodAny")),
     ZRecord(ZNumber(<<>>)),
     ZUnion(<<ZString(<<>>), ZNumber(<<>>)>>),
     ZObject(<<"street", "city">>, <<ZString(<<>>), ZString(<<Chk("min", 2)>>)>>),
     [typeName |-> "ZodInstance", cls |-> "File"]}

BaseNodes == StringNodes \cup NumberNodes \cup UnknownNodes \cup StructuredNodes

\* A node as it stands, or wrapped once.
Wrappings(n) == {n, ZOptional(n), ZNullable(n), ZEffects(n, "refinement")}

FieldNodes == UNION {Wrappings(n) : n \in BaseNodes}

\* The nodes used as properties of the object schemas given to parseSchema.
PropNodes ==
    {ZString(<<>>), ZString(<<Chk("min", 100)>>), ZNumber(<<Chk("min", 1), Chk("max", 5)>>),
     ZBoolean, ZOther("ZodBigInt"), ZOptional(ZString(<<Chk("email", 0)>>)),
     ZObject(<<"street", "name">>, <<ZString(<<>>), ZString(<<>>)>>),
     ZArray(ZString(<<>>))}

PropNames == {"name", "email", "address"}

\* z.object({...}): the keys of an object literal are distinct.
ObjectSchemas ==
    UNION {{ZObject(keys, props) :
                props \in {p \in SeqsUpTo(PropNodes, MaxProps) : Len(p) = Len(keys)}} :
           keys \in {k \in SeqsUpTo(PropNames, MaxProps) : Distinct(k)}}

BasePaths == {"", "address"}

----------------------------------------------------------------------------
(* The schema parser as a state machine: each action is one call. *)

NoCall == [op |-> "none"]
NoRequest == [body |-> Undef, headers |-> <<>>, schema |-> ZOther("none")]
NoFieldCall == [op |-> "none"]

\* No call is in progress.
Idle ==
    /\ call = NoCall
    /\ req = NoRequest
    /\ vcall = NoFieldCall

ParserInit ==
    /\ call = NoCall
    /\ ret = EmptyObj

CallMapZodType ==
    /\ Idle
    /\ \E zodType \in FieldNodes :
        /\ call' = [op |-> "mapZodTypeToHtmlElement", arg |-> zodType]
        /\ ret' = mapZodTypeToHtmlElement(zodType, "")
    /\ UNCHANGED <<bridgeVars, pageVars, arrayVars>>

CallExtractValidationRules ==
    /\ Idle
    /\ \E zodType \in FieldNodes :
        /\ call' = [op |-> "extractValidationRules", arg |-> zodType]
        /\ ret' = extractValidationRules(zodType)
    /\ UNCHANGED <<bridgeVars, pageVars, arrayVars>>

CallParseSchema ==
    /\ Idle
    /\ \E schema \in ObjectSchemas, basePath \in BasePaths :
        /\ call' = [op |-> "parseSchema", arg |-> schema, basePath |-> basePath]
        /\ ret' = parseSchema(schema, basePath)
    /\ UNCHANGED <<bridgeVars, pageVars, arrayVars>>

\* parseSchema on a node that is no object: the empty map
CallParseSchemaNonObject ==
    /\ Idle
    /\ \E schema \in StructuredNodes \cup UnknownNodes :
        /\ schema.typeName # "ZodObject"
        /\ call' = [op |-> "parseSchema", arg |-> schema, basePath |-> ""]
        /\ ret' = parseSchema(schema, "")
    /\ UNCHANGED <<bridgeVars, pageVars, arrayVars>>

\* The caller takes the result; the next call may start.
ParserReturn ==
    /\ call # NoCall
    /\ call' = NoCall
    /\ ret' = EmptyObj
    /\ UNCHANGED <<bridgeVars, pageVars, arrayVars>>

ParserNext ==
    \/ CallMapZodType
    \/ CallExtractValidationRules
    \/ CallParseSchema
    \/ CallParseSchemaNonObject
    \/ ParserReturn

----------------------------------------------------------------------------
(* Properties of the schema parser. *)

\* The node inside optional, nullable and refinement wrappers.
RECURSIVE Core(_)
Core(zodType) ==
    IF zodType.typeName \in {"ZodOptional", "ZodNullable"} THEN Core(zodType.innerType)
    ELSE IF zodType.typeName = "ZodEffects" /\ zodType.effect = "refinement"
    THEN Core(zodType.schema)
    ELSE zodType

HasCheck(zodType, kinds) ==
    \E i \in 1..Len(zodType.checks) : zodType.checks[i].kind \in kinds

HasLongMin(zodType) ==
    \E i \in 1..Len(zodType.checks) :
        zodType.checks[i].kind = "min" /\ zodType.checks[i].value >= 100

Mapped == call.op = "mapZodTypeToHtmlElement"
Extracted == call.op = "extractValidationRules"
ParsedObject == call.op = "parseSchema" /\ call.arg.typeName = "ZodObject"

\* C1: parseSchema of an object schema with N properties returns exactly N
\* descriptors, in the schema's declaration order, each named after its
\* property, and no two of them with the same path.
C1_OneDescriptorPerProperty ==
    ParsedObject =>
        /\ Len(ret) = Len(call.arg.keys)
        /\ \A i \in 1..Len(ret) :
            /\ ret[i].key = call.arg.keys[i]
            /\ ret[i].value.name = call.arg.keys[i]
        /\ \A i, j \in 1..Len(ret) : i # j => ret[i].value.path # ret[j].value.path

C1_Witness ==
    /\ ParsedObject
    /\ call.basePath = "address"
    /\ call.arg.keys = <<"name", "email">>
    /\ Len(ret) = 2
    /\ ret[1].value.path = "address.name"
    /\ ret[2].value.path = "address.email"

\* C2, as stated: every string node with a minimum length of 100 or more is
\* mapped to textarea, whatever other checks it carries.
C2_TextareaWhateverOtherChecks ==
    (Mapped /\ Core(call.arg).typeName = "ZodString" /\ HasLongMin(Core(call.arg)))
        => ret.type = "textarea"

\* C2, amended: a string node with a minimum length of 100 or more and no
\* email, url or uuid check is mapped to textarea, whatever its remaining
\* checks (shorter minimums, maximums, patterns) and their order.
C2_TextareaWithoutFormatCheck ==
    (/\ Mapped
     /\ Core(call.arg).typeName = "ZodString"
     /\ HasLongMin(Core(call.arg))
     /\ ~HasCheck(Core(call.arg), {"email", "url", "uuid"}))
        => ret.type = "textarea"

C2_Witness ==
    /\ Mapped
    /\ call.arg = ZString(<<Chk("max", 50), Chk("min", 2), Chk("min", 100)>>)
    /\ ret.type = "textarea"

\* C3: a numeric node is mapped to range exactly when it declares a minimum
\* and a maximum (the first declared of each) whose span max - min is at
\* most 10, and then carries those bounds; a numeric node missing either
\* bound, or with a larger span, is mapped to number.
C3_RangeIffSmallSpan ==
    (Mapped /\ Core(call.arg).typeName = "ZodNumber") =>
        LET checks == Core(call.arg).checks
            mins == {i \in 1..Len(checks) : checks[i].kind = "min"}
            maxs == {i \in 1..Len(checks) : checks[i].kind = "max"}
            first(S) == CHOOSE i \in S : \A j \in S : i <= j
        IN  IF mins # {} /\ maxs # {} /\ checks[first(maxs)].value - checks[first(mins)].value <= 10
            THEN /\ ret.type = "range"
                 /\ ret.min = checks[first(mins)].value
                 /\ ret.max = checks[first(maxs)].value
            ELSE ret.type = "number"

C3_Witness ==
    /\ Mapped
    /\ call.arg = ZNumber(<<Chk("min", 1), Chk("max", 5)>>)
    /\ ret.type = "range"
    /\ ret.min = 1
    /\ ret.max = 5

\* C4: for a node of a kind the parser does not know, mapZodTypeToHtmlElement
\* returns (it does not throw) a field of type text, extractValidationRules
\* returns a bag holding nothing but `required`, and the descriptor parseSchema
\* builds for such a property has type text.
C4_UnknownKindIsText ==
    /\ (Mapped /\ IsUnknownKind(Core(call.arg))) =>
            "type" \in DOMAIN ret /\ ret.type = "text"
    /\ (Extracted /\ IsUnknownKind(Core(call.arg))) =>
            ObjKeys(ret) = <<"required">>
    /\ ParsedObject =>
            \A i \in 1..Len(ret) :
                IsUnknownKind(Core(call.arg.props[i])) =>
                    "type" \in DOMAIN ret[i].value /\ ret[i].value.type = "text"

C4_Witness ==
    /\ Mapped
    /\ call.arg = ZEffects(ZString(<<Chk("email", 0)>>), "transform")
    /\ ret = [type |-> "text"]

----------------------------------------------------------------------------
(* Reading values, and the paths of the issues the validator reports. *)

\* data[key] of an object value
ValGet(value, key) ==
    IF HasKey(value.entries, key) THEN Get(value.entries, key) ELSE Undef

\* A segment of an issue's path: a property name or an array index.
KeySeg(key) == [key |-> key]
IdxSeg(index) == [index |-> index]

\* String(segment), as Array.prototype.join applies it
SegText(seg) == IF "key" \in DOMAIN seg THEN seg.key ELSE ToString(seg.index)

\* parts.join(sep)
RECURSIVE Join(_, _)
Join(parts, sep) ==
    IF Len(parts) = 0 THEN ""
    ELSE IF Len(parts) = 1 THEN parts[1]
    ELSE parts[1] \o sep \o Join(Tail(parts), sep)

----------------------------------------------------------------------------
(* schema.parse of the zod library: the issues it reports, in order, the   *)
(* parsed value, and whether a refinement callback threw.                  *)

IsEmail(s) == s \in {"john@example.com"}
IsUrl(s) == s \in {"https://example.com"}

Issue(path, message) == [path |-> path, message |-> message]

Message(check, default) == IF check.message # "" THEN check.message ELSE default

InvalidType(expected, value, path) ==
    [thrown |-> FALSE, aborted |-> TRUE, value |-> value,
     issues |-> <<Issue(path, IF value.t = "undefined" THEN "Required"
                              ELSE "Expected " \o expected \o ", received " \o value.t)>>]

Parsed(value, issues) ==
    [thrown |-> FALSE, aborted |-> FALSE, value |-> value, issues |-> issues]

Thrown == [thrown |-> TRUE, aborted |-> TRUE, value |-> Undef, issues |-> <<>>]

StringCheckFails(check, s) ==
    CASE check.kind = "min" -> Len(s) < check.value
      [] check.kind = "max" -> Len(s) > check.value
      [] check.kind = "email" -> ~IsEmail(s)
      [] check.kind = "url" -> ~IsUrl(s)
      [] OTHER -> FALSE

StringCheckMessage(check) ==
    CASE check.kind = "min" ->
            Message(check, "String must contain at least " \o ToString(check.value) \o " character(s)")
      [] check.kind = "max" ->
            Message(check, "String must contain at most " \o ToString(check.value) \o " character(s)")
      [] OTHER -> Message(check, "Invalid " \o check.kind)

NumberCheckFails(check, n) ==
    CASE check.kind = "min" -> n < check.value
      [] check.kind = "max" -> n > check.value
      [] OTHER -> FALSE

NumberCheckMessage(check) ==
    CASE check.kind = "min" ->
            Message(check, "Number must be greater than or equal to " \o ToString(check.value))
      [] check.kind = "max" ->
            Message(check, "Number must be less than or equal to " \o ToString(check.value))
      [] OTHER -> Message(check, "Invalid " \o check.kind)

\* Every failing check of a string or number node adds its issue, in order.
RECURSIVE CheckIssues(_, _, _, _)
CheckIssues(typeName, checks, value, path) ==
    IF checks = <<>> THEN <<>>
    ELSE LET check == Head(checks)
             fails == IF typeName = "ZodString" THEN StringCheckFails(check, value.s)
                      ELSE NumberCheckFails(check, value.n)
             message == IF typeName = "ZodString" THEN StringCheckMessage(check)
                        ELSE NumberCheckMessage(check)
         IN  (IF fails THEN <<Issue(path, message)>> ELSE <<>>)
             \o CheckIssues(typeName, Tail(checks), value, path)

RECURSIVE ZodParse(_, _, _), ZodParsePairs(_, _, _, _, _), ZodParseItems(_, _, _, _, _)

\* node._parse(value) at `path`
ZodParse(node, value, path) ==
    CASE node.typeName = "ZodString" ->
            IF value.t # "string" THEN InvalidType("string", value, path)
            ELSE Parsed(value, CheckIssues("ZodString", node.checks, value, path))
      [] node.typeName = "ZodNumber" ->
            IF value.t # "number" THEN InvalidType("number", value, path)
            ELSE Parsed(value, CheckIssues("ZodNumber", node.checks, value, path))
      [] node.typeName = "ZodOptional" ->
            IF value.t = "undefined" THEN Parsed(Undef, <<>>)
            ELSE ZodParse(node.innerType, value, path)
      [] node.typeName = "ZodObject" ->
            IF value.t # "object" THEN InvalidType("object", value, path)
            ELSE ZodParsePairs(node, value, path, 1, Parsed(Obj(<<>>), <<>>))
      [] node.typeName = "ZodArray" ->
            IF value.t # "array" THEN InvalidType("array", value, path)
            ELSE ZodParseItems(node, value, path, 1, Parsed(Arr(<<>>), <<>>))
      [] node.typeName = "ZodEffects" ->
            LET inner == ZodParse(node.schema, value, path)
            IN  IF inner.thrown \/ inner.aborted THEN inner
                ELSE IF node.fn = "throws" THEN Thrown
                ELSE IF node.fn = "rejects"
                     THEN Parsed(inner.value, Append(inner.issues, Issue(path, "Invalid input")))
                ELSE inner
      [] node.typeName = "undefined" -> Thrown    \* undefined._parse: a TypeError
      [] OTHER -> Parsed(value, <<>>)              \* ZodAny

\* The properties of an object node, in shape order; unknown keys are stripped
\* and a key whose parsed value is undefined is left out of the result.
ZodParsePairs(node, value, path, i, acc) ==
    IF i > Len(node.keys) THEN acc
    ELSE LET key == node.keys[i]
             r == ZodParse(node.props[i], ValGet(value, key), Append(path, KeySeg(key)))
         IN  IF r.thrown THEN Thrown
             ELSE ZodParsePairs(node, value, path, i + 1,
                    [thrown |-> FALSE,
                     aborted |-> acc.aborted \/ r.aborted,
                     issues |-> acc.issues \o r.issues,
                     value |-> IF r.value.t = "undefined" THEN acc.value
                               ELSE Obj(Append(acc.value.entries, [key |-> key, value |-> r.value]))])

ZodParseItems(node, value, path, i, acc) ==
    IF i > Len(value.items) THEN acc
    ELSE LET r == ZodParse(node.type, value.items[i], Append(path, IdxSeg(i - 1)))
         IN  IF r.thrown THEN Thrown
             ELSE ZodParseItems(node, value, path, i + 1,
                    [thrown |-> FALSE,
                     aborted |-> acc.aborted \/ r.aborted,
                     issues |-> acc.issues \o r.issues,
                     value |-> Arr(Append(acc.value.items, r.value))])

\* schema.parse(data): returns the parsed value, throws a ZodError carrying
\* the issues, or lets the exception of a refinement callback through.
SchemaParse(schema, data) ==
    LET r == ZodParse(schema, data, <<>>)
    IN  IF r.thrown THEN [outcome |-> "Error"]
        ELSE IF r.issues # <<>> THEN [outcome |-> "ZodError", errors |-> r.issues]
        ELSE [outcome |-> "ok", value |-> r.value]

----------------------------------------------------------------------------
(* core/validation.js *)

\* Only the first segment of the path taken as the field name.
ErrorFieldName_FirstSegment(err) ==
    IF Len(err.path) = 0 THEN "" ELSE SegText(err.path[1])

\* const fieldName = err.path.join('.')
ErrorFieldName(err) == Join([i \in 1..Len(err.path) |-> SegText(err.path[i])], ".")

\* A path that already has a message keeps it.
StoreError_FirstWins(formattedErrors, err) ==
    IF HasKey(formattedErrors, ErrorFieldName(err)) THEN formattedErrors
    ELSE ObjSet(formattedErrors, ErrorFieldName(err), err.message)

\* formattedErrors[fieldName] = err.message
StoreError(formattedErrors, err) == ObjSet(formattedErrors, ErrorFieldName(err), err.message)

RECURSIVE FormatLoop(_, _, _)
FormatLoop(errors, i, formattedErrors) ==
    IF i > Len(errors) THEN formattedErrors
    ELSE FormatLoop(errors, i + 1, StoreError(formattedErrors, errors[i]))

\* error.errors.forEach(...)
formatZodErrors(error) == FormatLoop(error.errors, 1, EmptyObj)

\* A request header is truthy when present and not the empty string.
Truthy(header) == header \notin {"undefined", ""}

\* The response object: res.status(code) sets the status, res.send and
\* res.json write the body.  An HTML body is kept as its element: the class
\* and the text or list items inside it.
NoResponse == [status |-> 200, sent |-> <<>>]

Send(response, status, by, kind, body) ==
    [status |-> status,
     sent |-> Append(response.sent, [by |-> by, kind |-> kind, body |-> body])]

\* `<div class="zf-error">${fieldError}</div>`
ErrorDiv(text) == [class |-> "zf-error", text |-> text]

\* The zf-alert-error block: one <li> per entry of formattedErrors.
ErrorList(formattedErrors) ==
    [class |-> "zf-alert zf-alert-error",
     heading |-> "Please correct the following errors:",
     items |-> [i \in 1..Len(formattedErrors) |-> formattedErrors[i].value]]

\* The field-level branch left out: every HTMX failure gets the whole list.
ValidationFailureResponse_NoFieldBranch(headers, formattedErrors) ==
    IF Truthy(Get(headers, "hx-request"))
    THEN Send(NoResponse, 400, "middleware", "html", ErrorList(formattedErrors))
    ELSE Send(NoResponse, 400, "middleware", "json",
              [success |-> FALSE, errors |-> formattedErrors])

\* The response the catch block sends for a ZodError.
ValidationFailureResponse(headers, formattedErrors) ==
    IF Truthy(Get(headers, "hx-request")) /\ Truthy(Get(headers, "hx-trigger-name"))
    THEN LET fieldName == Get(headers, "hx-trigger-name")
             fieldError == Get(formattedErrors, fieldName)
         IN  IF Truthy(fieldError)
             THEN Send(NoResponse, 400, "middleware", "html", ErrorDiv(fieldError))
             ELSE Send(NoResponse, 200, "middleware", "html", ErrorDiv(""))
    ELSE IF Truthy(Get(headers, "hx-request"))
    THEN Send(NoResponse, 400, "middleware", "html", ErrorList(formattedErrors))
    ELSE Send(NoResponse, 400, "middleware", "json",
              [success |-> FALSE, errors |-> formattedErrors])

\* The route handler after the middleware, as in the tests:
\* res.status(200).json({ success: true, data: req.validatedData })
HandlerResponse(response, validatedData) ==
    Send(response, 200, "handler", "json", [success |-> TRUE, data |-> validatedData])

\* Nothing was thrown into the catch block.
NotCaught == [outcome |-> "none"]

\* The ZodError branch running on into next(error) after it has responded.
MiddlewareOutcome_FallsThrough(schema, request, handlerThrows) ==
    LET result == SchemaParse(schema, request.body)
    IN  CASE result.outcome = "ok" ->
                [req |-> [request EXCEPT !.validatedData = result.value],
                 caught |-> NotCaught,
                 nextCalls |-> <<"">>,
                 handler |-> IF handlerThrows THEN "threw" ELSE "ran",
                 res |-> IF handlerThrows THEN NoResponse
                         ELSE HandlerResponse(NoResponse, result.value)]
          [] result.outcome = "ZodError" ->
                LET formattedErrors == formatZodErrors(result)
                IN  [req |-> [request EXCEPT !.validationErrors = formattedErrors],
                     caught |-> result,
                     nextCalls |-> <<"Error">>,
                     handler |-> "idle",
                     res |-> ValidationFailureResponse(request.headers, formattedErrors)]
          [] OTHER ->
                [req |-> request,
                 caught |-> result,
                 nextCalls |-> <<"Error">>,
                 handler |-> "idle",
                 res |-> NoResponse]

\* The state the (req, res, next) => {...} function leaves.  next() runs the
\* downstream route handler; express catches what that handler throws, so
\* next() itself returns.
MiddlewareOutcome(schema, request, handlerThrows) ==
    LET result == SchemaParse(schema, request.body)
    IN  CASE result.outcome = "ok" ->
                [req |-> [request EXCEPT !.validatedData = result.value],
                 caught |-> NotCaught,
                 nextCalls |-> <<"">>,
                 handler |-> IF handlerThrows THEN "threw" ELSE "ran",
                 res |-> IF handlerThrows THEN NoResponse
                         ELSE HandlerResponse(NoResponse, result.value)]
          [] result.outcome = "ZodError" ->
                LET formattedErrors == formatZodErrors(result)
                IN  [req |-> [request EXCEPT !.validationErrors = formattedErrors],
                     caught |-> result,
                     nextCalls |-> <<>>,
                     handler |-> "idle",
                     res |-> ValidationFailureResponse(request.headers, formattedErrors)]
          [] OTHER ->
                [req |-> request,
                 caught |-> result,
                 nextCalls |-> <<"Error">>,
                 handler |-> "idle",
                 res |-> NoResponse]

\* fieldPath.split('.'), on the field paths used here
PathPartLists ==
    {<<"name">>, <<"email">>, <<"age">>, <<"address">>, <<"nickname">>,
     <<"address", "street">>, <<"address", "city">>}

Split(fieldPath) == CHOOSE parts \in PathPartLists : Join(parts, ".") = fieldPath

\* schema.shape[fieldName]
Shape(schema, fieldName) ==
    IF \E i \in 1..Len(schema.keys) : schema.keys[i] = fieldName
    THEN schema.props[CHOOSE i \in 1..Len(schema.keys) : schema.keys[i] = fieldName]
    ELSE [typeName |-> "undefined"]

\* The schema validateField builds for the one field.
FieldSchema(schema, pathParts) ==
    LET fieldName == pathParts[Len(pathParts)]
    IN  IF Len(pathParts) = 1
        THEN ZObject(<<fieldName>>, <<Shape(schema, fieldName)>>)
        ELSE ZObject(<<fieldName>>, <<schema>>)

\* Every exception caught and reported as a validation failure.
validateField_CatchesAll(schema, fieldPath, value) ==
    LET pathParts == Split(fieldPath)
        fieldName == pathParts[Len(pathParts)]
        fieldObject == Obj(<<[key |-> fieldName, value |-> value]>>)
        result == SchemaParse(FieldSchema(schema, pathParts), fieldObject)
    IN  CASE result.outcome = "ok" -> [valid |-> TRUE]
          [] result.outcome = "ZodError" -> [valid |-> FALSE, errors |-> formatZodErrors(result)]
          [] OTHER -> [valid |-> FALSE, errors |-> EmptyObj]

validateField(schema, fieldPath, value) ==
    LET pathParts == Split(fieldPath)
        fieldName == pathParts[Len(pathParts)]
        fieldObject == Obj(<<[key |-> fieldName, value |-> value]>>)
        result == SchemaParse(FieldSchema(schema, pathParts), fieldObject)
    IN  CASE result.outcome = "ok" -> [valid |-> TRUE]
          [] result.outcome = "ZodError" -> [valid |-> FALSE, errors |-> formatZodErrors(result)]
          [] OTHER -> [threw |-> result.outcome]

----------------------------------------------------------------------------
(* The schemas, submissions and headers the validation bridge is run on. *)

\* A refinement whose callback accepts, rejects, or throws.
ZRefine(schema, fn) ==
    [typeName |-> "ZodEffects", schema |-> schema, effect |-> "refinement", fn |-> fn]

NameEmailSchema ==
    ZObject(<<"name", "email">>,
            <<ZString(<<Chk("min", 2)>>), ZString(<<Chk("email", 0)>>)>>)

NameAgeSchema ==
    ZObject(<<"name", "age">>,
            <<ZString(<<ChkMsg("min", 2, "Name is too short")>>),
              ZOptional(ZNumber(<<Chk("min", 18)>>))>>)

AddressSchema ==
    ZObject(<<"name", "address">>,
            <<ZString(<<Chk("min", 2)>>),
              ZObject(<<"street", "city">>,
                      <<ZString(<<>>), ZString(<<ChkMsg("min", 2, "City is too short")>>)>>)>>)

\* Two checks on one field: a short value that is no e-mail fails both.
MultiCheckSchema ==
    ZObject(<<"email", "nickname">>,
            <<ZString(<<Chk("min", 5), Chk("email", 0)>>),
              ZOptional(ZString(<<Chk("max", 2)>>))>>)

RefinedSchema ==
    ZObject(<<"name", "email">>,
            <<ZRefine(ZString(<<Chk("min", 2)>>), "rejects"),
              ZOptional(ZRefine(ZString(<<>>), "throws"))>>)

InterestsSchema ==
    ZObject(<<"interests">>, <<ZArray(ZString(<<Chk("min", 2)>>))>>)

BridgeSchemas ==
    {NameEmailSchema, NameAgeSchema, AddressSchema, MultiCheckSchema, RefinedSchema,
     InterestsSchema}

PlainValues ==
    {Undef, Str("J"), Str("Jo"), Str("not-an-email"), Str("john@example.com"),
     Num(17), Num(21)}

\* { street, city }: a property whose value is undefined is absent
AddressValue(street, city) ==
    Obj((IF street = Undef THEN <<>> ELSE <<[key |-> "street", value |-> street]>>)
        \o (IF city = Undef THEN <<>> ELSE <<[key |-> "city", value |-> city]>>))

AddressValues ==
    {AddressValue(street, city) :
        street \in {Undef, Str("Main St")}, city \in {Undef, Str("J"), Str("Jo")}}

InterestsValues ==
    {Arr(<<>>), Arr(<<Str("J")>>), Arr(<<Str("Jo"), Str("J")>>), Arr(<<Str("J"), Str("J")>>)}

ValuesFor(key) ==
    CASE key = "address" -> AddressValues \cup {Undef, Str("J")}
      [] key = "interests" -> InterestsValues \cup {Undef}
      [] OTHER -> PlainValues

AllValues == PlainValues \cup AddressValues \cup InterestsValues

\* The body object with the given values under the given keys.
RECURSIVE BodyEntries(_, _, _)
BodyEntries(keys, values, i) ==
    IF i > Len(keys) THEN <<>>
    ELSE (IF values[i] = Undef THEN <<>> ELSE <<[key |-> keys[i], value |-> values[i]]>>)
         \o BodyEntries(keys, values, i + 1)

\* The submissions for a schema: every property absent or holding one of its
\* values, with or without a property the schema does not declare; and a
\* request that has no body at all.
BodiesFor(schema) ==
    {Undef} \cup
    {Obj(BodyEntries(schema.keys, values, 1) \o extra) :
        values \in {v \in [1..Len(schema.keys) -> AllValues] :
                        \A i \in 1..Len(schema.keys) : v[i] \in ValuesFor(schema.keys[i])},
        extra \in {<<>>, <<[key |-> "extra", value |-> Str("x")]>>}}

Header(name, value) ==
    IF value = "undefined" THEN <<>> ELSE <<[key |-> name, value |-> value]>>

TriggerNames == {"undefined", "name", "email", "address.city", "address[city]"}

HeaderSets ==
    {Header("hx-request", hx) \o Header("hx-trigger-name", trigger) :
        hx \in {"undefined", "true"}, trigger \in TriggerNames}

Request(body, headers) ==
    [body |-> body, headers |-> headers, validatedData |-> Undef, validationErrors |-> Undef]

FieldPaths == {Join(parts, ".") : parts \in PathPartLists}

----------------------------------------------------------------------------
(* The validation bridge as a state machine: one request through the      *)
(* middleware, or one validateField call, at a time.                      *)

BridgeInit ==
    /\ req = NoRequest
    /\ caught = NotCaught
    /\ res = NoResponse
    /\ nextCalls = <<>>
    /\ handler = "idle"
    /\ vcall = NoFieldCall
    /\ vret = EmptyObj

\* app.post(path, zodForm.validate(schema), handler) receives a request.
HandleRequest ==
    /\ Idle
    /\ \E schema \in BridgeSchemas, headers \in HeaderSets, handlerThrows \in BOOLEAN :
        \E body \in BodiesFor(schema) :
          LET out == MiddlewareOutcome(schema, Request(body, headers), handlerThrows)
          IN  /\ req' = [schema |-> schema] @@ out.req
              /\ caught' = out.caught
              /\ res' = out.res
              /\ nextCalls' = out.nextCalls
              /\ handler' = out.handler
    /\ UNCHANGED <<vcall, vret>>
    /\ UNCHANGED <<parserVars, pageVars, arrayVars>>

\* The response (or the error) has gone out; the next request may come.
RequestDone ==
    /\ req # NoRequest
    /\ req' = NoRequest
    /\ caught' = NotCaught
    /\ res' = NoResponse
    /\ nextCalls' = <<>>
    /\ handler' = "idle"
    /\ UNCHANGED <<vcall, vret>>
    /\ UNCHANGED <<parserVars, pageVars, arrayVars>>

CallValidateField ==
    /\ Idle
    /\ UNCHANGED <<parserVars, pageVars, arrayVars>>
    /\ \E schema \in BridgeSchemas, fieldPath \in FieldPaths, value \in AllValues :
        /\ vcall' = [op |-> "validateField", schema |-> schema,
                     fieldPath |-> fieldPath, value |-> value]
        /\ vret' = validateField(schema, fieldPath, value)
        /\ UNCHANGED <<req, caught, res, nextCalls, handler>>

ValidateFieldReturn ==
    /\ vcall # NoFieldCall
    /\ vcall' = NoFieldCall
    /\ vret' = EmptyObj
    /\ UNCHANGED <<req, caught, res, nextCalls, handler>>
    /\ UNCHANGED <<parserVars, pageVars, arrayVars>>

BridgeNext ==
    \/ HandleRequest
    \/ RequestDone
    \/ CallValidateField
    \/ ValidateFieldReturn

----------------------------------------------------------------------------------------------------------------------------------------------------
(* Properties of the validation middleware. *)

Handled == req # NoRequest
FailedValidation == Handled /\ caught.outcome = "ZodError"

\* What the middleware itself wrote to the response.
MiddlewareSends == SelectSeq(res.sent, LAMBDA m : m.by = "middleware")

\* The dotted address of a failing path.
DottedPath(path) == Join([i \in 1..Len(path) |-> SegText(path[i])], ".")

\* The distinct paths the validator reported failures for, and the messages
\* it reported for a dotted address.
FailingPaths(errors) == {errors[i].path : i \in 1..Len(errors)}
MessagesFor(errors, name) ==
    {errors[i].message : i \in {j \in 1..Len(errors) : DottedPath(errors[j].path) = name}}

\* The three outcomes of the middleware, by their effects.
PassedOn ==
    /\ nextCalls = <<"">>
    /\ MiddlewareSends = <<>>
RejectedWithResponse ==
    /\ nextCalls = <<>>
    /\ Len(MiddlewareSends) = 1
    /\ handler = "idle"
    /\ \/ res.status = 400
       \/ MiddlewareSends[1].body = ErrorDiv("")
FailedWithError ==
    /\ nextCalls = <<"Error">>
    /\ res.sent = <<>>
    /\ handler = "idle"

\* C5: every request the middleware handles ends in exactly one of three
\* outcomes: the body satisfies the schema, req.validatedData is the parsed
\* result, next() is called once without argument and the middleware sends
\* nothing; or the schema reports a validation failure, the middleware sends
\* one response (status 400, or the empty field-error element), next is not
\* called and the route handler does not run; or another exception was
\* thrown, next(error) is called once and nothing is sent.
C5_ExactlyOneOutcome ==
    Handled =>
        LET verdict == SchemaParse(req.schema, req.body).outcome
        IN  /\ verdict = "ok" =>
                PassedOn /\ req.validatedData = SchemaParse(req.schema, req.body).value
            /\ verdict = "ZodError" => RejectedWithResponse /\ req.validatedData = Undef
            /\ verdict = "Error" => FailedWithError /\ req.validatedData = Undef
            /\ Cardinality({o \in {"a", "b", "c"} :
                    \/ o = "a" /\ PassedOn
                    \/ o = "b" /\ RejectedWithResponse
                    \/ o = "c" /\ FailedWithError}) = 1
            /\ handler # "idle" => verdict = "ok"

C5_Witness ==
    /\ FailedValidation
    /\ req.schema = NameEmailSchema
    /\ req.headers = <<>>
    /\ res.status = 400
    /\ nextCalls = <<>>
    /\ handler = "idle"

\* C6: when k distinct field paths of the body fail, the errors map has
\* exactly k entries, keyed by the dotted addresses of those paths, and a
\* request that is not an HTMX request gets it as the 400 JSON body
\* {success: false, errors}.  For {name: min 2, email: email} and
\* {name: 'J', email: 'not-an-email'} the keys are name and email.
C6_OneEntryPerFailingPath ==
    (FailedValidation /\ ~Truthy(Get(req.headers, "hx-request"))) =>
        /\ res.status = 400
        /\ Len(res.sent) = 1
        /\ res.sent[1].kind = "json"
        /\ res.sent[1].body.success = FALSE
        /\ LET errors == res.sent[1].body.errors
           IN  /\ Len(errors) = Cardinality(FailingPaths(caught.errors))
               /\ {errors[i].key : i \in 1..Len(errors)}
                    = {DottedPath(path) : path \in FailingPaths(caught.errors)}
               /\ (/\ req.schema = NameEmailSchema
                   /\ req.body.t = "object"
                   /\ ValGet(req.body, "name") = Str("J")
                   /\ ValGet(req.body, "email") = Str("not-an-email"))
                    => ObjKeys(errors) = <<"name", "email">>

C6_Witness ==
    /\ FailedValidation
    /\ req.schema = NameEmailSchema
    /\ req.headers = <<>>
    /\ req.body = Obj(<<[key |-> "name", value |-> Str("J")],
                        [key |-> "email", value |-> Str("not-an-email")]>>)
    /\ res.sent[1].kind = "json"
    /\ Len(res.sent[1].body.errors) = 2

----------------------------------------------------------------------------
(* Properties of validateField and formatZodErrors. *)

\* The sub-schema a field path addresses: each part names a property of the
\* object reached so far.
RECURSIVE SubSchema(_, _)
SubSchema(schema, parts) ==
    IF parts = <<>> THEN schema
    ELSE IF Core(schema).typeName = "ZodObject"
    THEN SubSchema(Shape(Core(schema), parts[1]), Tail(parts))
    ELSE [typeName |-> "undefined"]

FieldChecked ==
    /\ vcall.op = "validateField"
    /\ SubSchema(vcall.schema, Split(vcall.fieldPath)).typeName # "undefined"

\* The field's own sub-schema applied to the value, nothing else.
FieldVerdict == ZodParse(SubSchema(vcall.schema, Split(vcall.fieldPath)), vcall.value, <<>>)

\* C8: validateField returns a valid result exactly when the value satisfies
\* the constraints of the named field, and an invalid result carries a
\* message the field's constraints gave; for {name: min 2}, 'J' is invalid
\* with the configured message and 'Jo' is valid.
C8_ValidIffFieldSatisfied ==
    (FieldChecked /\ ~FieldVerdict.thrown) =>
        /\ "valid" \in DOMAIN vret
        /\ vret.valid <=> FieldVerdict.issues = <<>>
        /\ ~vret.valid =>
            \E i \in 1..Len(vret.errors), j \in 1..Len(FieldVerdict.issues) :
                vret.errors[i].value = FieldVerdict.issues[j].message

\* C9: for top-level and for nested dotted paths alike, no other part of the
\* schema decides a single-field check: a value the addressed sub-schema
\* accepts is reported valid, whatever else the shape declares.
C9_FieldValidatedInIsolation ==
    (FieldChecked /\ ~FieldVerdict.thrown /\ FieldVerdict.issues = <<>>)
        => vret = [valid |-> TRUE]

\* The results of formatZodErrors the state holds, each with the failures it
\* was computed from.
Formatted ==
    (IF FailedValidation
     THEN {[errors |-> caught.errors, map |-> req.validationErrors]} ELSE {})
    \cup
    (IF vcall.op = "validateField" /\ "errors" \in DOMAIN vret
     THEN {[errors |-> SchemaParse(FieldSchema(vcall.schema, Split(vcall.fieldPath)),
                                   Obj(<<[key |-> Split(vcall.fieldPath)[Len(Split(vcall.fieldPath))],
                                          value |-> vcall.value]>>)).errors,
            map |-> vret.errors]}
     ELSE {})

\* C10: formatZodErrors yields exactly one message per failing path: the map
\* has as many keys as there are distinct failing paths, and the message
\* under a path is that of the last failure reported for it.
C10_OneMessagePerPathLastWins ==
    \A f \in Formatted :
        /\ Len(f.map) = Cardinality(FailingPaths(f.errors))
        /\ \A path \in FailingPaths(f.errors) :
            LET last == CHOOSE i \in 1..Len(f.errors) :
                            /\ f.errors[i].path = path
                            /\ \A j \in (i + 1)..Len(f.errors) : f.errors[j].path # path
            IN  /\ Cardinality({i \in 1..Len(f.map) : f.map[i].key = DottedPath(path)}) = 1
                /\ Get(f.map, DottedPath(path)) = f.errors[last].message

\* Two failures reported for the one path email: the later message stands.
C10_Witness ==
    /\ FailedValidation
    /\ req.schema = MultiCheckSchema
    /\ Len(caught.errors) = 2
    /\ caught.errors[1].path = caught.errors[2].path
    /\ req.validationErrors = <<[key |-> "email", value |-> "Invalid email"]>>

----------------------------------------------------------------------------
(* elements/index.js: the descriptors the object and array renderers make  *)
(* for the inputs they contain.                                            *)

\* const nestedField = {...subfield, name: `${field.name}[${subfield.name}]`,
\*                      path: `${field.path}.${subfield.name}`}
NestedField(field, subfield) ==
    [name |-> field.name \o "[" \o subfield.name \o "]",
     path |-> (IF "path" \in DOMAIN field THEN field.path ELSE "undefined")
                  \o "." \o subfield.name]
    @@ subfield

\* const itemField = {...field.itemType, name: `${field.name}[${index}]`,
\*                    path: `${field.path}[${index}]`, value: item}
ItemField(field, index, item) ==
    [name |-> field.name \o "[" \o ToString(index) \o "]",
     path |-> field.path \o "[" \o ToString(index) \o "]",
     value |-> item]
    @@ field.itemType

\* The descriptor handed to the element renderer of the input that holds the
\* value at an issue's path: the field itself, a property of an object
\* field, or an element of an array field.
RenderedInput(fields, data, path) ==
    LET field == Get(fields, path[1].key)
    IN  IF Len(path) = 1 THEN field
        ELSE IF field.type = "object"
        THEN NestedField(field, Get(field.fields, path[2].key))
        ELSE ItemField(field, path[2].index,
                       ValGet(data, path[1].key).items[path[2].index + 1])

\* C11: the key formatZodErrors gives a failure equals the path the renderer
\* assigns to the input the failure is about, for top-level fields, for
\* properties of a nested object and for elements of an array alike.
C11_ErrorKeyIsRenderPath ==
    FailedValidation =>
        \A i \in 1..Len(caught.errors) :
            Len(caught.errors[i].path) \in 1..2 =>
                ErrorFieldName(caught.errors[i])
                    = RenderedInput(parseSchema(req.schema, ""), req.body,
                                    caught.errors[i].path).path

\* The parse validateField runs for the call in progress: the one-property
\* object {fieldName: value} against the schema built for the field.
FieldParse ==
    LET pathParts == Split(vcall.fieldPath)
    IN  SchemaParse(FieldSchema(vcall.schema, pathParts),
                    Obj(<<[key |-> pathParts[Len(pathParts)], value |-> vcall.value]>>))

----------------------------------------------------------------------------
(* integrations/htmx.js and core/renderer.js: the page in the browser.     *)
(* A page carries the forms renderForm produced and their scripts: the     *)
(* script of generateClientValidation and that of generateConditionalLogic.*)

Bool(b) == [t |-> "boolean", b |-> b]

\* `${value}` in a template literal: String(value)
TemplateText(value) ==
    CASE value.t = "string" -> value.s
      [] value.t = "boolean" -> (IF value.b THEN "true" ELSE "false")
      [] OTHER -> "undefined"

\* The delays of the two setTimeout calls of updateVisibility, in ms.
ShowDelay == 10
HideDelay == 200

\* One entry of options.conditionalLogic: fieldName: {show, equals, notEquals};
\* a key the entry does not give is undefined.
Rule(fieldName, show, equals, notEquals) ==
    [fieldName |-> fieldName, show |-> show, equals |-> equals, notEquals |-> notEquals]

\* The statements generated for updateVisibility: shouldShow starts false and
\* each of the two comparisons that is generated may set it.
ShouldShow(rule, value) ==
    \/ rule.equals # Undef /\ value = Str(TemplateText(rule.equals))
    \/ rule.notEquals # Undef /\ value # Str(TemplateText(rule.notEquals))

\* The expression generated for initialShow.
InitialShow(rule, initialValue) ==
    IF rule.equals # Undef
    THEN initialValue = Str(TemplateText(rule.equals))
    ELSE initialValue # Str(TemplateText(rule.notEquals))

\* field.validation?.required !== false
RequiredAttribute(field) ==
    ~(HasKey(field.validation, "required") /\ Get(field.validation, "required") = FALSE)

\* The element a renderer writes for a field: the wrapper <div id="field-..">
\* with its style, and the one input, select or checkbox inside it with its
\* name, value and attributes. A radio group is one input for each option,
\* all of one name, in the order of the options: value is the option whose
\* input is checked ("" while none is), and the radio renderer writes no
\* required attribute.
RenderedField(field, value, checked) ==
    [type |-> field.type,
     options |-> IF field.type \in {"select", "radio"}
                 THEN [i \in 1..Len(field.options) |-> field.options[i].value]
                 ELSE <<>>,
     required |-> RequiredAttribute(field) /\ field.type # "radio",
     value |-> value,
     checked |-> checked,
     disabled |-> FALSE,
     display |-> "",
     opacity |-> "",
     transition |-> "",
     listeners |-> <<>>]

\* Element references: what querySelector returns.
Null == [form |-> 0, name |-> ""]
ElementRef(form, name) == [form |-> form, name |-> name]

\* The forms of the page that hold a field of this name, in document order.
FormsWith(d, name) == {f \in DOMAIN d : name \in DOMAIN d[f]}

\* document.querySelector('[name="${show}"]'): the first match in the document
QuerySelectorName(d, name) ==
    IF FormsWith(d, name) = {} THEN Null
    ELSE ElementRef(CHOOSE f \in FormsWith(d, name) : \A g \in FormsWith(d, name) : f <= g,
                    name)

\* document.querySelector('#field-${fieldName}'): the first wrapper with the id
QuerySelectorFieldId(d, fieldName) ==
    IF FormsWith(d, fieldName) = {} THEN Null
    ELSE ElementRef(CHOOSE f \in FormsWith(d, fieldName) :
                        \A g \in FormsWith(d, fieldName) : f <= g,
                    fieldName)

\* controlField.type === 'checkbox' ? controlField.checked : controlField.value
\* With a radio group, querySelector has returned the first input of the
\* name: its value is the value attribute of the first option.
ControlValue(controlField) ==
    CASE controlField.type = "checkbox" -> Bool(controlField.checked)
      [] controlField.type = "radio" -> Str(controlField.options[1])
      [] OTHER -> Str(controlField.value)

\* The function generated for one rule, run by updateConditionalFields:
\* st holds the DOM and the console, script is the form whose script runs.
InitRule(st, rule, script) ==
    LET controlField == QuerySelectorName(st.dom, rule.show)
        targetField == QuerySelectorFieldId(st.dom, rule.fieldName)
    IN  IF controlField = Null \/ targetField = Null
        THEN [st EXCEPT !.console =
                Append(@, [warn |-> "Conditional field not found",
                           controlField |-> rule.show, targetField |-> rule.fieldName])]
        ELSE LET initialValue == ControlValue(st.dom[controlField.form][controlField.name])
                 initialShow == InitialShow(rule, initialValue)
                 styled == [st.dom EXCEPT ![targetField.form][targetField.name] =
                              [@ EXCEPT !.transition = "opacity 0.2s ease-in",
                                        !.display = IF initialShow THEN "block" ELSE "none",
                                        !.opacity = IF initialShow THEN "1" ELSE "0"]]
                 updateVisibility == [rule |-> rule, script |-> script,
                                      controlField |-> controlField,
                                      targetField |-> targetField]
                 radios == IF st.dom[controlField.form][controlField.name].type = "radio"
                           THEN FormsWith(st.dom, rule.show)
                           ELSE {controlField.form}
             IN  [st EXCEPT !.dom =
                    [f \in DOMAIN styled |->
                        IF f \in radios
                        THEN [styled[f] EXCEPT ![controlField.name].listeners =
                                Append(@, updateVisibility)]
                        ELSE styled[f]]]

\* updateConditionalFields: Object.entries(conditionalLogic).forEach
RECURSIVE UpdateConditionalFields(_, _, _, _)
UpdateConditionalFields(st, rules, script, i) ==
    IF i > Len(rules) THEN st
    ELSE UpdateConditionalFields(InitRule(st, rules[i], script), rules, script, i + 1)

\* The change listener of one rule: st holds the DOM and the pending timers.
UpdateVisibility(st, listener) ==
    LET value == ControlValue(st.dom[listener.controlField.form][listener.controlField.name])
        shouldShow == ShouldShow(listener.rule, value)
        t == listener.targetField
    IN  IF shouldShow
        THEN [dom |-> [st.dom EXCEPT ![t.form][t.name] =
                            [@ EXCEPT !.display = "block", !.disabled = FALSE]],
              timers |-> Append(st.timers,
                            [delay |-> ShowDelay, targetField |-> t,
                             property |-> "opacity", value |-> "1"])]
        ELSE [dom |-> [st.dom EXCEPT ![t.form][t.name] =
                            [@ EXCEPT !.opacity = "0",
                                      !.transition = "opacity 0.2s ease-out",
                                      !.disabled = TRUE]],
              timers |-> Append(st.timers,
                            [delay |-> HideDelay, targetField |-> t,
                             property |-> "display", value |-> "none"])]

\* A change event at an element: its listeners run in the order they were added.
RECURSIVE DispatchChange(_, _, _)
DispatchChange(st, listeners, i) ==
    IF i > Len(listeners) THEN st
    ELSE DispatchChange(UpdateVisibility(st, listeners[i]), listeners, i + 1)

\* The listeners scripts add to the document for DOMContentLoaded; script is
\* the form the script was generated with.
ClientValidation(withConditionalLogic, script) ==
    [fn |-> "clientValidation", conditionalLogic |-> withConditionalLogic, script |-> script]
ConditionalLogic(script) ==
    [fn |-> "conditionalLogic", conditionalLogic |-> FALSE, script |-> script]

\* One DOMContentLoaded listener: st holds the document, the DOM and the
\* console.  The listener of generateClientValidation finds the form, adds
\* its submit listener and then runs the text of generateConditionalLogic,
\* which adds a DOMContentLoaded listener of its own; the listener of
\* generateConditionalLogic runs updateConditionalFields.
RunLoadListener(st, listener) ==
    IF listener.fn = "clientValidation"
    THEN IF DOMAIN st.dom = {} THEN st
         ELSE LET form == CHOOSE f \in DOMAIN st.dom : \A g \in DOMAIN st.dom : f <= g
                  withSubmit == [st.doc EXCEPT !.submitListeners[form] = @ + 1]
              IN  [st EXCEPT !.doc =
                     IF listener.conditionalLogic /\ Len(st.doc.rules) > 0
                     THEN [withSubmit EXCEPT !.listeners = Append(@, ConditionalLogic(listener.script))]
                     ELSE withSubmit]
    ELSE LET out == UpdateConditionalFields([dom |-> st.dom, console |-> st.console],
                                            st.doc.rules, listener.script, 1)
         IN  [st EXCEPT !.dom = out.dom, !.console = out.console]

\* The dispatch of an event runs the listeners the target had when the
\* dispatch began; a listener added meanwhile is not run by this dispatch.
RECURSIVE DispatchLoad(_, _, _)
DispatchLoad(st, listeners, i) ==
    IF i > Len(listeners) THEN st
    ELSE DispatchLoad(RunLoadListener(st, listeners[i]), listeners, i + 1)

\* field.checkValidity() for the values used here: a required control with no
\* value, or a required checkbox that is not checked, is invalid.
CheckValidity(field) ==
    ~field.required \/ (IF field.type = "checkbox" THEN field.checked ELSE field.value # "")

\* The submit listener of generateClientValidation on a form: the fields it
\* validates and whether it calls preventDefault (the submit button of the
\* template carries no hx-post).
SubmitListener(form) ==
    LET allFields == {name \in DOMAIN form : ~form[name].disabled}
        isValid == \A name \in allFields : CheckValidity(form[name])
    IN  [validated |-> allFields, prevented |-> ~isValid]

----------------------------------------------------------------------------
(* The pages the browser is given. *)

EmploymentSchema ==
    ZObject(<<"employmentStatus", "companyName">>,
            <<ZEnum(<<"employed", "student">>), ZString(<<Chk("min", 2)>>)>>)

EmploymentSchoolSchema ==
    ZObject(<<"employmentStatus", "companyName", "schoolName">>,
            <<ZEnum(<<"employed", "student">>), ZString(<<Chk("min", 2)>>),
              ZOptional(ZString(<<>>))>>)

SubscribeSchema ==
    ZObject(<<"subscribe", "details">>, <<ZBoolean, ZString(<<>>)>>)

\* zodForm(schema, {conditionalLogic})
Page(schema, conditionalLogic) == [schema |-> schema, conditionalLogic |-> conditionalLogic]

EmployedRule == Rule("companyName", "employmentStatus", Str("employed"), Undef)

EmployedPage == Page(EmploymentSchema, <<EmployedRule>>)
NotStudentPage ==
    Page(EmploymentSchema, <<Rule("companyName", "employmentStatus", Undef, Str("student"))>>)
MissingControlPage ==
    Page(EmploymentSchoolSchema,
         <<Rule("schoolName", "noSuchField", Str("student"), Undef), EmployedRule>>)
MissingTargetPage ==
    Page(EmploymentSchema,
         <<Rule("noSuchField", "employmentStatus", Str("student"), Undef), EmployedRule>>)
CheckedPage == Page(SubscribeSchema, <<Rule("details", "subscribe", Bool(TRUE), Undef)>>)
UncheckedPage == Page(SubscribeSchema, <<Rule("details", "subscribe", Bool(FALSE), Undef)>>)

\* Rules that give both keys, and neither: the compiler takes them as they are.
EmployedNotStudentPage ==
    Page(EmploymentSchema,
         <<Rule("companyName", "employmentStatus", Str("employed"), Str("student"))>>)
NoPredicatePage ==
    Page(EmploymentSchema, <<Rule("companyName", "employmentStatus", Undef, Undef)>>)

\* A union is rendered as a radio group, its options valued '0', '1', ...
ChannelSchema ==
    ZObject(<<"channel", "details">>,
            <<ZUnion(<<ZString(<<>>), ZNumber(<<>>)>>), ZString(<<>>)>>)

SecondChannelRule == Rule("details", "channel", Str("1"), Undef)
RadioPage == Page(ChannelSchema, <<SecondChannelRule>>)

Pages ==
    {EmployedPage, NotStudentPage, MissingControlPage, MissingTargetPage,
     CheckedPage, UncheckedPage, EmployedNotStudentPage, NoPredicatePage, RadioPage}

\* The forms of one page: the same form once, or twice.
FormCounts == {1, 2}

\* What a text input holds once the user has typed into it.
TypedText == "Acme"

\* The ways a field is rendered: a select with no option or one of its
\* options selected, a checkbox checked or not, a radio group with no input
\* or one of its inputs checked, a text input empty.
RenderedFields(field) ==
    CASE field.type = "select" ->
            {RenderedField(field, value, FALSE) :
                value \in {""} \cup {field.options[i].value : i \in 1..Len(field.options)}}
      [] field.type = "checkbox" ->
            {RenderedField(field, "true", checked) : checked \in BOOLEAN}
      [] field.type = "radio" ->
            {RenderedField(field, value, FALSE) :
                value \in {""} \cup {field.options[i].value : i \in 1..Len(field.options)}}
      [] OTHER -> {RenderedField(field, "", FALSE)}

\* The ways a form of the schema is rendered: one element for each field.
RenderedForms(schema) ==
    LET fields == parseSchema(schema, "")
        names == {fields[i].key : i \in 1..Len(fields)}
        all == UNION {RenderedFields(fields[i].value) : i \in 1..Len(fields)}
    IN  {form \in [names -> all] :
            \A name \in names : form[name] \in RenderedFields(Get(fields, name))}

\* The DOMContentLoaded listeners the scripts of one form leave on the
\* document while the page is parsed: with options.conditionalLogic the one
\* script of renderForm holds both; a page may also carry the text of
\* generateConditionalLogic in a script element of its own.
ScriptListeners(inRenderForm, script) ==
    IF inRenderForm THEN <<ClientValidation(TRUE, script)>>
    ELSE <<ClientValidation(FALSE, script), ConditionalLogic(script)>>

\* The listeners of the scripts of forms 1..n, in document order.
RECURSIVE PageListeners(_, _)
PageListeners(inRenderForm, n) ==
    IF n = 0 THEN <<>>
    ELSE PageListeners(inRenderForm, n - 1) \o ScriptListeners(inRenderForm, n)

NoSubmit == [form |-> 0, validated |-> {}, prevented |-> FALSE]

----------------------------------------------------------------------------
(* The page as a state machine: the document loads, the user changes       *)
(* fields and submits, timers fire.                                        *)

\* No page is open.
NoPage == [rules |-> <<>>, phase |-> "none", listeners |-> <<>>, submitListeners |-> <<>>]

PageInit ==
    /\ doc = NoPage
    /\ dom = <<>>
    /\ timers = <<>>
    /\ console = <<>>
    /\ submitted = NoSubmit

\* The browser receives a page and parses it: the forms are in the document
\* as rendered and the scripts have added their DOMContentLoaded listeners.
OpenPage ==
    /\ doc = NoPage
    /\ \E page \in Pages, n \in FormCounts, inRenderForm \in BOOLEAN :
        /\ doc' = [rules |-> page.conditionalLogic,
                   phase |-> "loading",
                   listeners |-> PageListeners(inRenderForm, n),
                   submitListeners |-> [f \in 1..n |-> 0]]
        /\ dom' \in [1..n -> RenderedForms(page.schema)]
    /\ UNCHANGED <<timers, console, submitted>>
    /\ UNCHANGED <<parserVars, bridgeVars, arrayVars>>

\* The document has been parsed: DOMContentLoaded is dispatched.
DOMContentLoaded ==
    /\ doc.phase = "loading"
    /\ LET out == DispatchLoad([doc |-> doc, dom |-> dom, console |-> console],
                               doc.listeners, 1)
       IN  /\ doc' = [out.doc EXCEPT !.phase = "loaded"]
           /\ dom' = out.dom
           /\ console' = out.console
    /\ UNCHANGED <<timers, submitted>>
    /\ UNCHANGED <<parserVars, bridgeVars, arrayVars>>

\* The fields a user can reach: enabled and displayed.
Reachable(field) == ~field.disabled /\ field.display # "none"

\* The user picks another option of a select, clicks a checkbox, or checks
\* another input of a radio group: the change event runs the listeners of the
\* element it is dispatched to.
Change ==
    /\ \E f \in DOMAIN dom :
        \E name \in DOMAIN dom[f] :
          /\ dom[f][name].type \in {"select", "checkbox", "radio"}
          /\ Reachable(dom[f][name])
          /\ Len(timers) + Len(dom[f][name].listeners) <= MaxTimers
          /\ \E value \in {""} \cup {dom[f][name].options[i] : i \in 1..Len(dom[f][name].options)} :
              /\ dom[f][name].type = "select" => value # dom[f][name].value
              /\ dom[f][name].type = "checkbox" => value = ""
              /\ dom[f][name].type = "radio" => value \notin {"", dom[f][name].value}
              /\ LET changed == [dom EXCEPT ![f][name] =
                                    IF @.type = "checkbox"
                                    THEN [@ EXCEPT !.checked = ~@]
                                    ELSE [@ EXCEPT !.value = value]]
                     out == DispatchChange([dom |-> changed, timers |-> timers],
                                           changed[f][name].listeners, 1)
                 IN  /\ dom' = out.dom
                     /\ timers' = out.timers
    /\ UNCHANGED <<doc, console, submitted>>
    /\ UNCHANGED <<parserVars, bridgeVars, arrayVars>>

\* The user types into a text input, or clears it.
Input ==
    /\ \E f \in DOMAIN dom :
        \E name \in DOMAIN dom[f] :
          /\ dom[f][name].type \notin {"select", "checkbox"}
          /\ Reachable(dom[f][name])
          /\ dom' = [dom EXCEPT ![f][name].value = IF @ = "" THEN TypedText ELSE ""]
    /\ UNCHANGED <<doc, timers, console, submitted>>
    /\ UNCHANGED <<parserVars, bridgeVars, arrayVars>>

\* A timer can fire when no timer set before it is due earlier or at the
\* same time: one set earlier with a delay that is not longer.
CanFire(i) == \A j \in 1..(i - 1) : timers[j].delay > timers[i].delay

\* A setTimeout callback of updateVisibility runs.
TimerFires ==
    /\ \E i \in 1..Len(timers) :
        /\ CanFire(i)
        /\ LET t == timers[i].targetField
           IN  dom' = [dom EXCEPT ![t.form][t.name] =
                          IF timers[i].property = "opacity"
                          THEN [@ EXCEPT !.opacity = timers[i].value]
                          ELSE [@ EXCEPT !.display = timers[i].value]]
        /\ timers' = [k \in 1..(Len(timers) - 1) |-> IF k < i THEN timers[k] ELSE timers[k + 1]]
    /\ UNCHANGED <<doc, console, submitted>>
    /\ UNCHANGED <<parserVars, bridgeVars, arrayVars>>

\* The user submits a form: its submit listeners run.
Submit ==
    /\ \E f \in DOMAIN dom :
        submitted' =
            IF doc.submitListeners[f] > 0
            THEN [form |-> f] @@ SubmitListener(dom[f])
            ELSE [form |-> f, validated |-> {}, prevented |-> FALSE]
    /\ UNCHANGED <<doc, dom, timers, console>>
    /\ UNCHANGED <<parserVars, bridgeVars, arrayVars>>

PageNext ==
    \/ OpenPage
    \/ DOMContentLoaded
    \/ Change
    \/ Input
    \/ TimerFires
    \/ Submit

----------------------------------------------------------------------------
(* Properties of the conditional rules on a page. *)

Loaded == doc.phase = "loaded"

\* The rules of a form whose controlling field and target field the form has.
RulesOf(f) ==
    {i \in 1..Len(doc.rules) :
        doc.rules[i].show \in DOMAIN dom[f] /\ doc.rules[i].fieldName \in DOMAIN dom[f]}

ControlOf(f, i) == dom[f][doc.rules[i].show]
TargetOf(f, i) == dom[f][doc.rules[i].fieldName]

\* The predicate of a rule on a controlling field: a checkbox gives its
\* checked state, any other field its value.
Holds(rule, controlField) ==
    /\ rule.equals # Undef => ControlValue(controlField) = rule.equals
    /\ rule.notEquals # Undef => ControlValue(controlField) # rule.notEquals

Visible(field) == field.display # "none"
Enabled(field) == ~field.disabled

\* Every rule of every form: the target is visible exactly when the predicate
\* holds, and its inputs are enabled exactly when it is visible.
RulesApplied ==
    \A f \in DOMAIN dom : \A i \in RulesOf(f) :
        /\ Visible(TargetOf(f, i)) <=> Holds(doc.rules[i], ControlOf(f, i))
        /\ Enabled(TargetOf(f, i)) <=> Visible(TargetOf(f, i))

\* C13: for every conditional rule, in the state the page is in when its
\* scripts have run on DOMContentLoaded and in the state after every change
\* event, the target is visible exactly when the rule's predicate holds for
\* the controlling field's value, and the target's inputs are enabled
\* exactly when the target is visible.
C13_RulesAppliedAtLoadAndChange ==
    [][(DOMContentLoaded \/ Change) => RulesApplied']_vars

\* Every rule of every form: display, opacity and the disabled state of the
\* inputs all agree with the predicate.
RulesSettled ==
    \A f \in DOMAIN dom : \A i \in RulesOf(f) :
        IF Holds(doc.rules[i], ControlOf(f, i))
        THEN /\ Visible(TargetOf(f, i))
             /\ TargetOf(f, i).opacity # "0"
             /\ Enabled(TargetOf(f, i))
        ELSE /\ ~Visible(TargetOf(f, i))
             /\ TargetOf(f, i).opacity = "0"
             /\ ~Enabled(TargetOf(f, i))

\* C14: whatever changes were made and in whatever order the delayed show and
\* hide callbacks ran, once the page has loaded and no timer is pending the
\* target's display, its opacity and the disabled state of its inputs agree
\* with the predicate on the controlling field's value.
C14_SettledWhenNoTimerPending ==
    (Loaded /\ timers = <<>>) => RulesSettled

\* A rule that names a controlling field or a target field no form has.
Skipped(rule) ==
    \A f \in DOMAIN dom : rule.show \notin DOMAIN dom[f] \/ rule.fieldName \notin DOMAIN dom[f]

\* The change listeners on the controlling field of rule i in form f that
\* were made for that rule and toggle the target of form f.
ListenersOf(f, i) ==
    {k \in 1..Len(ControlOf(f, i).listeners) :
        /\ ControlOf(f, i).listeners[k].rule = doc.rules[i]
        /\ ControlOf(f, i).listeners[k].targetField = ElementRef(f, doc.rules[i].fieldName)}

\* C15: on a loaded page, a rule whose controlling field or target field
\* does not exist has been skipped with a warning in the console, and every
\* other rule of the form has been initialized: its change listener is on
\* its controlling field.
C15_MissingFieldRuleSkipped ==
    Loaded =>
        \A i \in 1..Len(doc.rules) :
            Skipped(doc.rules[i]) =>
                /\ \E k \in 1..Len(console) :
                    /\ console[k].controlField = doc.rules[i].show
                    /\ console[k].targetField = doc.rules[i].fieldName
                /\ \A f \in DOMAIN dom : \A j \in RulesOf(f) : ListenersOf(f, j) # {}

\* The page of the rule {companyName: {show: employmentStatus, equals: employed}}.
EmployedRuleLoaded == Loaded /\ doc.rules = <<EmployedRule>>

\* C16: with the rule {companyName shown when employmentStatus equals
\* 'employed'} on a loaded page, the target is visible and enabled while the
\* controlling value is 'employed' and hidden and disabled while it is
\* 'student', the value the form loaded with included; and a submit never
\* validates the inputs of the target while it is hidden.
C16_EmployedShownStudentHidden ==
    [][EmployedRuleLoaded' =>
        \A f \in DOMAIN dom' :
            /\ dom'[f]["employmentStatus"].value = "employed" =>
                 Visible(dom'[f]["companyName"]) /\ Enabled(dom'[f]["companyName"])
            /\ dom'[f]["employmentStatus"].value = "student" =>
                 ~Visible(dom'[f]["companyName"]) /\ ~Enabled(dom'[f]["companyName"])
            /\ (Submit /\ submitted'.form = f /\ ~Visible(dom'[f]["companyName"])) =>
                 "companyName" \notin submitted'.validated]_vars

\* C17: a rule on a checkbox is evaluated against the checked state: with
\* equals true (false) the target is shown exactly when the checkbox is
\* checked (unchecked), when the page has loaded and after each change.
C17_CheckboxRuleUsesChecked ==
    [][(DOMContentLoaded \/ Change) =>
        \A f \in DOMAIN dom' : \A i \in 1..Len(doc'.rules) :
            (i \in RulesOf(f)' /\ ControlOf(f, i)'.type = "checkbox"
                /\ doc'.rules[i].equals.t = "boolean") =>
                (Visible(TargetOf(f, i)') <=> ControlOf(f, i)'.checked = doc'.rules[i].equals.b)]_vars

\* C18: a rule stays inside the form it was compiled for: each form's rule
\* has its listener on the controlling field of that form, toggling the
\* target of that form, and no listener made by the script of one form reads
\* or toggles a field of another form.
C18_RuleStaysInsideItsForm ==
    Loaded =>
        /\ \A f \in DOMAIN dom : \A i \in RulesOf(f) :
            \E k \in ListenersOf(f, i) : ControlOf(f, i).listeners[k].script = f
        /\ \A f \in DOMAIN dom : \A name \in DOMAIN dom[f] :
            \A k \in 1..Len(dom[f][name].listeners) :
                /\ dom[f][name].listeners[k].script = f
                /\ dom[f][name].listeners[k].targetField.form = f

----------------------------------------------------------------------------
(* elements/index.js and core/renderer.js: rendering.  A renderer is given *)
(* the descriptor object itself; its result here is the markup together    *)
(* with the descriptor as the call leaves it, or an exception.  Markup is  *)
(* a record of the element's tag, attributes and children.                 *)

Rendered(field, html) == [threw |-> FALSE, field |-> field, html |-> html]
RenderThrew(field) == [threw |-> TRUE, field |-> field, html |-> <<>>]

\* field.type, field.name, field.id || field.name: a key the descriptor does
\* not have reads as undefined
FieldType(field) == IF "type" \in DOMAIN field THEN field.type ELSE "undefined"
FieldName(field) == IF "name" \in DOMAIN field THEN field.name ELSE "undefined"
FieldId(field) == IF "id" \in DOMAIN field THEN field.id ELSE FieldName(field)

HasLabel(field) == "label" \in DOMAIN field /\ field.label # ""

\* field.label || field.name.charAt(0).toUpperCase() + ...: the label given,
\* or the text derived from the name; a TypeError when there is neither.
LabelThrows(field) == ~HasLabel(field) /\ "name" \notin DOMAIN field
LabelText(field) ==
    IF HasLabel(field) THEN [label |-> field.label] ELSE [name |-> FieldName(field)]

\* field.validation?.[key], when it is there and truthy
HasRule(field, key) == "validation" \in DOMAIN field /\ HasKey(field.validation, key)
NumberRule(field, key) == HasRule(field, key) /\ Get(field.validation, key) # 0
TextRule(field, key) == HasRule(field, key) /\ Get(field.validation, key) # ""

\* field.validation?.required !== false, for a descriptor that may have no
\* validation bag
RequiredUnlessFalse(field) ==
    ~(HasRule(field, "required") /\ Get(field.validation, "required") = FALSE)

\* {...(condition ? {key: value} : {})}
AttributeIf(condition, key, value) ==
    IF condition THEN <<[key |-> key, value |-> value]>> ELSE <<>>

\* The attributes object of the text renderer, as attributesToString writes
\* it: without the keys whose value is undefined.
TextAttributes(field) ==
    AttributeIf("type" \in DOMAIN field, "type", FieldType(field))
    \o AttributeIf(DOMAIN field \cap {"id", "name"} # {}, "id", FieldId(field))
    \o AttributeIf("name" \in DOMAIN field, "name", FieldName(field))
    \o AttributeIf(RequiredUnlessFalse(field), "required", TRUE)
    \o (IF NumberRule(field, "minLength")
        THEN <<[key |-> "minlength", value |-> Get(field.validation, "minLength")]>> ELSE <<>>)
    \o (IF NumberRule(field, "maxLength")
        THEN <<[key |-> "maxlength", value |-> Get(field.validation, "maxLength")]>> ELSE <<>>)
    \o (IF TextRule(field, "pattern")
        THEN <<[key |-> "pattern", value |-> Get(field.validation, "pattern")]>> ELSE <<>>)
    \o (IF "placeholder" \in DOMAIN field /\ field.placeholder # ""
        THEN <<[key |-> "placeholder", value |-> field.placeholder]>> ELSE <<>>)

\* createFieldWrapper: templates.field around the label, the input and the
\* error container.
createFieldWrapper(field, inputHtml) ==
    IF LabelThrows(field) THEN RenderThrew(field)
    ELSE Rendered(field, [tag |-> "div", id |-> "field-" \o FieldId(field),
                           label |-> LabelText(field),
                           required |-> RequiredUnlessFalse(field),
                           input |-> inputHtml])

text(field) ==
    createFieldWrapper(field, [tag |-> "input", attributes |-> TextAttributes(field)])

\* The descriptor's type overwritten with 'text'.
email_Retyped(field) == text([type |-> "text"] @@ field)

\* field.type = 'email'; return text(field, options)
email(field) == text([type |-> "email"] @@ field)

\* field.type = 'url'; return text(field, options)
url(field) == text([type |-> "url"] @@ field)

\* The renderers of the other kinds that write one control: each has its own
\* template; none assigns to the descriptor.
ControlKinds ==
    {"textarea", "select", "checkbox", "radio", "file", "number", "range", "date", "stars"}

\* What a renderer writes for a rule when it is there, or else its own default.
RuleOr(field, key, fallback) ==
    IF HasRule(field, key) THEN Get(field.validation, key) ELSE fallback

\* field.min || 0, field.max || 100 of the range renderer
FieldNumber(field, key, fallback) ==
    IF key \in DOMAIN field /\ field[key] # 0 THEN field[key] ELSE fallback

\* The constraint attributes of each of these renderers: textarea tests the
\* length rules for truth, number tests min, max and step against undefined,
\* range always writes min, max and step, date tests min and max for truth;
\* range and radio write no required attribute.
ConstraintAttributes(field) ==
    AttributeIf(RequiredUnlessFalse(field) /\ FieldType(field) \notin {"range", "radio"},
                "required", TRUE)
    \o (CASE FieldType(field) = "textarea" ->
                AttributeIf(NumberRule(field, "minLength"), "minlength",
                            RuleOr(field, "minLength", 0))
                \o AttributeIf(NumberRule(field, "maxLength"), "maxlength",
                               RuleOr(field, "maxLength", 0))
          [] FieldType(field) = "number" ->
                AttributeIf(HasRule(field, "min"), "min", RuleOr(field, "min", 0))
                \o AttributeIf(HasRule(field, "max"), "max", RuleOr(field, "max", 0))
                \o AttributeIf(HasRule(field, "step"), "step", RuleOr(field, "step", 0))
          [] FieldType(field) = "range" ->
                <<[key |-> "min", value |-> RuleOr(field, "min", FieldNumber(field, "min", 0))],
                  [key |-> "max", value |-> RuleOr(field, "max", FieldNumber(field, "max", 100))],
                  [key |-> "step", value |-> RuleOr(field, "step", 1)]>>
          [] FieldType(field) = "date" ->
                AttributeIf(NumberRule(field, "min"), "min", RuleOr(field, "min", 0))
                \o AttributeIf(NumberRule(field, "max"), "max", RuleOr(field, "max", 0))
          [] OTHER -> <<>>)

control(field) ==
    createFieldWrapper(field, [tag |-> FieldType(field),
                               attributes |->
                                  AttributeIf(DOMAIN field \cap {"id", "name"} # {},
                                              "id", FieldId(field))
                                  \o AttributeIf("name" \in DOMAIN field,
                                                 "name", FieldName(field))
                                  \o ConstraintAttributes(field)])

\* The keys of module.exports of elements/index.js.
ElementKinds == {"text", "email", "url", "object", "array", "record"} \cup ControlKinds

\* field.value || [] of the array renderer, field.value || {} of the record
\* renderer
FieldValue(field) == IF "value" \in DOMAIN field THEN field.value ELSE <<>>

RECURSIVE RenderElement(_)

\* items.map(render), the markup of each; an exception of one ends the call
RECURSIVE RenderAll(_, _, _)
RenderAll(fields, i, htmls) ==
    IF i > Len(fields) THEN [threw |-> FALSE, html |-> htmls]
    ELSE LET r == RenderElement(fields[i])
         IN  IF r.threw THEN [threw |-> TRUE, html |-> <<>>]
             ELSE RenderAll(fields, i + 1, Append(htmls, r.html))

\* The object renderer: each property rendered from a copy that carries the
\* nested name and path.
object(field) ==
    LET subfields == IF "fields" \in DOMAIN field THEN field.fields ELSE <<>>
        nested == RenderAll([i \in 1..Len(subfields) |-> NestedField(field, subfields[i].value)],
                            1, <<>>)
    IN  IF nested.threw \/ LabelThrows(field) THEN RenderThrew(field)
        ELSE Rendered(field, [tag |-> "fieldset", id |-> FieldName(field) \o "-fieldset",
                               legend |-> LabelText(field), fields |-> nested.html])

\* The array renderer: each value rendered from a copy of the item descriptor.
array(field) ==
    LET values == FieldValue(field)
        items == RenderAll([i \in 1..Len(values) |-> ItemField(field, i - 1, values[i])],
                           1, <<>>)
    IN  IF items.threw THEN RenderThrew(field)
        ELSE createFieldWrapper(field, [tag |-> "array", id |-> FieldName(field) \o "-container",
                                        items |-> items.html])

\* const valueField = {...valueType, name, value}
ValueField(field, index, value) ==
    [name |-> FieldName(field) \o "[" \o ToString(index) \o "].value", value |-> value]
    @@ (IF "valueType" \in DOMAIN field THEN field.valueType ELSE <<>>)

\* The record renderer: one key input and one value field for each entry,
\* and one empty pair when there is no entry.
record(field) ==
    LET values == FieldValue(field)
        entries == IF Len(values) > 0 THEN values ELSE <<[key |-> "", value |-> ""]>>
        items == RenderAll([i \in 1..Len(entries) |-> ValueField(field, i - 1, entries[i].value)],
                           1, <<>>)
    IN  IF items.threw THEN RenderThrew(field)
        ELSE createFieldWrapper(field,
                [tag |-> "array", id |-> FieldName(field) \o "-container",
                 items |-> [i \in 1..Len(entries) |->
                               [key |-> [name |-> FieldName(field) \o "[" \o ToString(i - 1) \o "].key",
                                         value |-> entries[i].key,
                                         required |-> RequiredUnlessFalse(field)],
                                value |-> items.html[i]]]])

\* elements[field.type] for a name the exports object inherits from
\* Object.prototype: the lookup is truthy, so the inherited member is called
\* with the exports object as this.  toString returns '[object Object]';
\* __proto__ is an object and no function, so the call is a TypeError.
InheritedKinds == {"toString", "__proto__"}

inherited(field) ==
    IF FieldType(field) = "toString" THEN Rendered(field, [text |-> "[object Object]"])
    ELSE RenderThrew(field)

\* elements[field.type](field, options), or the text renderer when the
\* lookup gives nothing
RenderElement(field) ==
    CASE FieldType(field) = "email" -> email(field)
      [] FieldType(field) \in InheritedKinds -> inherited(field)
      [] FieldType(field) = "url" -> url(field)
      [] FieldType(field) = "object" -> object(field)
      [] FieldType(field) = "array" -> array(field)
      [] FieldType(field) = "record" -> record(field)
      [] FieldType(field) \in ControlKinds -> control(field)
      [] OTHER -> text(field)

renderField(field) == RenderElement(field)

\* Object.values(fields).map(renderField): the markup of every field and the
\* descriptors as the calls leave them.
RECURSIVE RenderFields(_, _, _)
RenderFields(fields, i, htmls) ==
    IF i > Len(fields) THEN [threw |-> FALSE, fields |-> fields, html |-> htmls]
    ELSE LET r == renderField(fields[i].value)
             after == [fields EXCEPT ![i].value = r.field]
         IN  IF r.threw THEN [threw |-> TRUE, fields |-> after, html |-> <<>>]
             ELSE RenderFields(after, i + 1, Append(htmls, r.html))

\* defaultClasses of prepareClasses
DefaultClasses ==
    [form |-> "zf-form", field |-> "zf-field", label |-> "zf-label",
     input |-> "zf-input", select |-> "zf-select", checkbox |-> "zf-checkbox",
     radio |-> "zf-radio", button |-> "zf-button", error |-> "zf-error",
     array |-> "zf-array", arrayItem |-> "zf-array-item",
     arrayControls |-> "zf-array-controls", fieldset |-> "zf-fieldset",
     legend |-> "zf-legend", submitButton |-> "zf-submit-button"]

\* options[key] || fallback
OptionOr(options, key, fallback) ==
    IF key \in DOMAIN options /\ options[key] # "" THEN options[key] ELSE fallback

\* options[key] || {}, for the options that are objects
OptionObject(options, key) == IF key \in DOMAIN options THEN options[key] ELSE <<>>

\* {...defaultClasses, ...customClasses}
prepareClasses(options) == OptionObject(options, "customClasses") @@ DefaultClasses

\* The form always given the default action.
FormAttributes_DefaultAction(options) ==
    LET formAttributes ==
            OptionObject(options, "attributes")
            @@ (IF "id" \in DOMAIN options /\ options.id # ""
                THEN [id |-> options.id] ELSE <<>>)
            @@ [action |-> "#",
                method |-> OptionOr(options, "method", "POST"),
                class |-> prepareClasses(options).form]
    IN  IF "layout" \in DOMAIN options /\ options.layout = "horizontal"
        THEN [formAttributes EXCEPT !.class = @ \o " zf-horizontal"]
        ELSE formAttributes

\* formAttributes of renderForm: action, method and class, then the id and
\* the caller's attributes spread over them, then the layout class appended.
FormAttributes(options) ==
    LET formAttributes ==
            OptionObject(options, "attributes")
            @@ (IF "id" \in DOMAIN options /\ options.id # ""
                THEN [id |-> options.id] ELSE <<>>)
            @@ [action |-> OptionOr(options, "action", "#"),
                method |-> OptionOr(options, "method", "POST"),
                class |-> prepareClasses(options).form]
    IN  IF "layout" \in DOMAIN options /\ options.layout = "horizontal"
        THEN [formAttributes EXCEPT !.class = @ \o " zf-horizontal"]
        ELSE formAttributes

\* var formSelector = options.id ? '#' + options.id : '.zf-form'
FormSelector(options) ==
    IF "id" \in DOMAIN options /\ options.id # ""
    THEN [by |-> "id", name |-> options.id]
    ELSE [by |-> "class", name |-> "zf-form"]

\* generateClientValidation: the script, a DOMContentLoaded listener that
\* looks its form up with the selector and returns when nothing matches.
generateClientValidation(options) ==
    [formSelector |-> FormSelector(options)]
        @@ ClientValidation("conditionalLogic" \in DOMAIN options, 1)

\* renderForm: the form around the fields and the submit button, the styles
\* of the theme, the script.  Every template of the call is given the same
\* classes object, so the markup holds it once, as classes.
renderForm(fields, options) ==
    LET content == RenderFields(fields, 1, <<>>)
    IN  IF content.threw THEN [threw |-> TRUE, fields |-> content.fields]
        ELSE [threw |-> FALSE,
              fields |-> content.fields,
              html |-> [tag |-> "form",
                        attributes |-> FormAttributes(options),
                        classes |-> prepareClasses(options),
                        content |-> content.html,
                        submitLabel |-> OptionOr(options, "submitLabel", "Submit")],
              styles |-> IF "theme" \in DOMAIN options /\ options.theme = "light"
                         THEN "lightTheme" ELSE "darkTheme",
              scripts |-> generateClientValidation(options)]

----------------------------------------------------------------------------
(* core/form-generator.js *)

\* The defaults generate merges the options over.
DefaultOptions ==
    [action |-> "#", method |-> "POST", submitLabel |-> "Submit",
     theme |-> "dark", layout |-> "vertical"]

\* Names every object inherits from Object.prototype: fields[name] is truthy
\* for them although the schema has no such field.
ObjectPrototypeKeys == {"constructor", "toString", "valueOf", "hasOwnProperty"}

\* fields[fieldName] = {...fields[fieldName], ...fieldOptions}
MergeHints(field, fieldOptions) == fieldOptions @@ field

\* Object.entries(mergedOptions.fieldOptions).forEach
RECURSIVE ApplyFieldOptions(_, _, _)
ApplyFieldOptions(fields, fieldOptions, i) ==
    IF i > Len(fieldOptions) THEN fields
    ELSE LET fieldName == fieldOptions[i].key
         IN  ApplyFieldOptions(
                IF HasKey(fields, fieldName)
                THEN ObjSet(fields, fieldName,
                            MergeHints(Get(fields, fieldName), fieldOptions[i].value))
                ELSE IF fieldName \in ObjectPrototypeKeys
                \* the inherited function is truthy and spreads to nothing
                THEN ObjSet(fields, fieldName, fieldOptions[i].value)
                ELSE fields,
                fieldOptions, i + 1)

\* The descriptors generate hands to the renderer.
GeneratedFields(schema, options) ==
    LET mergedOptions == options @@ DefaultOptions
        fields == parseSchema(schema, "")
    IN  IF "fieldOptions" \in DOMAIN mergedOptions
        THEN ApplyFieldOptions(fields, mergedOptions.fieldOptions, 1)
        ELSE fields

generate(schema, options) ==
    LET mergedOptions == options @@ DefaultOptions
        form == renderForm(GeneratedFields(schema, options), mergedOptions)
    IN  IF form.threw THEN [threw |-> TRUE, fields |-> form.fields]
        ELSE [threw |-> FALSE, html |-> form.html, styles |-> form.styles,
              scripts |-> form.scripts, fields |-> form.fields, schema |-> schema]

\* templates/modal.js modalTemplate and the object generateModal returns: the
\* form inside the modal with its title and cancel button.
modalTemplate(form, options) ==
    IF form.threw THEN form
    ELSE [threw |-> FALSE,
          html |-> [tag |-> "zf-modal",
                    title |-> OptionOr(options, "title", "Form"),
                    formHtml |-> form.html,
                    cancelLabel |-> OptionOr(options, "cancelLabel", "Cancel")],
          styles |-> form.styles,
          scripts |-> form.scripts]

\* templates/modal.js generateModal: the form generated with the hx
\* attributes put on it.
generateModal(schema, options) ==
    modalTemplate(
        generate(schema,
                 [attributes |-> OptionObject(options, "attributes")
                                 @@ [hxPost |-> OptionOr(options, "action", "#"),
                                     hxTarget |-> OptionOr(options, "target", "#zf-modal-overlay"),
                                     hxSwap |-> OptionOr(options, "swap", "outerHTML")]]
                 @@ options),
        options)

----------------------------------------------------------------------------
(* The generator and the renderer as a state machine: each action is one   *)
(* call of generate or renderField.                                        *)

MaxFieldOptions == 1    \* keys of the fieldOptions object given to generate

ContactSchema ==
    ZObject(<<"email", "website">>,
            <<ZString(<<Chk("email", 0)>>), ZOptional(ZString(<<Chk("url", 0)>>))>>)

RatingSchema ==
    ZObject(<<"rating", "comment">>,
            <<ZNumber(<<Chk("min", 1), Chk("max", 5)>>), ZString(<<Chk("min", 2), Chk("max", 50)>>)>>)

ProfileSchema ==
    ZObject(<<"address", "contacts">>,
            <<ZObject(<<"street", "email">>, <<ZString(<<>>), ZString(<<Chk("email", 0)>>)>>),
              ZArray(ZString(<<Chk("email", 0)>>))>>)

SettingsSchema ==
    ZObject(<<"links", "avatar">>, <<ZRecord(ZString(<<Chk("url", 0)>>)), ZOther("ZodAny")>>)

\* An array of objects and a record of objects.
ListSchema ==
    ZObject(<<"list", "byName">>,
            <<ZArray(ZObject(<<"street">>, <<ZString(<<>>)>>)),
              ZRecord(ZObject(<<"street">>, <<ZString(<<>>)>>))>>)

\* The fields of the test of the validation attributes, an optional field,
\* a long text, and a list of strings with a minimum length.
SignupSchema ==
    ZObject(<<"name", "age", "alias", "bio", "tags">>,
            <<ZString(<<Chk("min", 2)>>),
              ZNumber(<<Chk("min", 18)>>),
              ZOptional(ZString(<<Chk("max", 50)>>)),
              ZNullable(ZString(<<Chk("min", 100), Chk("max", 150)>>)),
              ZArray(ZString(<<Chk("min", 2)>>))>>)

GeneratorSchemas ==
    {ContactSchema, RatingSchema, ProfileSchema, SettingsSchema, ListSchema, SignupSchema}

\* Hint bags as the README and the examples write them, and two that carry
\* a validation key.
HintBags ==
    {[type |-> "stars"],
     [type |-> "stars", label |-> "Rating", unit |-> "star"],
     [type |-> "textarea", placeholder |-> "Tell us more", rows |-> 4],
     [type |-> "rating"],
     [type |-> "toString"],
     [type |-> "__proto__"],
     [label |-> "Your e-mail"],
     [validation |-> <<[key |-> "required", value |-> FALSE]>>],
     [label |-> "Comment", validation |-> EmptyObj]}

\* The values of a repeatable field and the entries of a record field.
ArrayHints == {[value |-> <<"a@b.c", "d@e.f">>]}
RecordHints == {[value |-> <<[key |-> "home", value |-> "http://a.b"]>>]}

\* The hint bags for a name: a value hint goes with the kind that reads it.
HintsFor(fields, name) ==
    HintBags
    \cup (IF HasKey(fields, name) /\ Get(fields, name).type = "array" THEN ArrayHints ELSE {})
    \cup (IF HasKey(fields, name) /\ Get(fields, name).type = "record" THEN RecordHints ELSE {})

\* The schema's keys, a name no schema here declares, and a name every
\* object inherits.
HintedNames(schema) == {schema.keys[i] : i \in 1..Len(schema.keys)} \cup {"nickname", "toString"}

FieldOptionsFor(schema) ==
    LET entries == UNION {{[key |-> name, value |-> hints] :
                              hints \in HintsFor(parseSchema(schema, ""), name)} :
                          name \in HintedNames(schema)}
    IN  {fo \in SeqsUpTo(entries, MaxFieldOptions) : Distinct(ObjKeys(fo))}

\* An option given or left out.
Given(key, values) == {<<>>} \cup {[k \in {key} |-> v] : v \in values}

\* The options of the tests: action, method, submit label, custom classes,
\* theme and layout, and an id for the form.
FormOptions ==
    {action @@ method @@ submitLabel @@ customClasses @@ look @@ id :
        action \in Given("action", {"/submit"}),
        method \in Given("method", {"GET"}),
        submitLabel \in Given("submitLabel", {"Save Record"}),
        customClasses \in Given("customClasses",
                               {[form |-> "my-custom-form", input |-> "my-custom-input"],
                                [input |-> "my-custom-input"]}),
        look \in {<<>>, [theme |-> "light", layout |-> "horizontal"]},
        id \in Given("id", {"signup"})}

ModalOptions ==
    {title @@ cancelLabel @@ action @@ customClasses :
        title \in Given("title", {"Test Modal"}),
        cancelLabel \in Given("cancelLabel", {"Cancel Button"}),
        action \in Given("action", {"/submit"}),
        customClasses \in Given("customClasses", {[form |-> "my-custom-form"]})}

GeneratorOptions(schema) ==
    FormOptions \cup {[fieldOptions |-> fo] : fo \in FieldOptionsFor(schema)}

\* The descriptors renderField is given: those generate builds.
FieldsOf(fields) == {fields[i].value : i \in 1..Len(fields)}

\* Descriptors whose children have a kind of the caller's: the address
\* object with its street retyped, the contacts array with its items retyped
\* and two values, the links record with its values retyped.
ChildKinds == {"rating", "toString", "__proto__"}

ChildKindFields ==
    LET profile == parseSchema(ProfileSchema, "")
        settings == parseSchema(SettingsSchema, "")
    IN  UNION {{[profile[1].value EXCEPT !.fields[1].value.type = kind],
                [value |-> <<"a@b.c", "d@e.f">>]
                    @@ [profile[2].value EXCEPT !.itemType.type = kind],
                [settings[1].value EXCEPT !.valueType.type = kind]} :
               kind \in ChildKinds}

RenderableFields ==
    ChildKindFields
    \cup UNION {UNION {FieldsOf(GeneratedFields(schema, [fieldOptions |-> fo])) :
                     fo \in FieldOptionsFor(schema)} :
           schema \in GeneratorSchemas}

CallGenerate ==
    /\ Idle
    /\ \E schema \in GeneratorSchemas :
        \E options \in GeneratorOptions(schema) :
            /\ call' = [op |-> "generate", schema |-> schema, options |-> options]
            /\ ret' = generate(schema, options)
    /\ UNCHANGED <<bridgeVars, pageVars, arrayVars>>

CallRenderField ==
    /\ Idle
    /\ \E field \in RenderableFields :
        /\ call' = [op |-> "renderField", arg |-> field]
        /\ ret' = renderField(field)
    /\ UNCHANGED <<bridgeVars, pageVars, arrayVars>>

CallGenerateModal ==
    /\ Idle
    /\ \E schema \in GeneratorSchemas, options \in ModalOptions :
        /\ call' = [op |-> "generateModal", schema |-> schema, options |-> options]
        /\ ret' = generateModal(schema, options)
    /\ UNCHANGED <<bridgeVars, pageVars, arrayVars>>

\* The caller takes the result; the next call may start.
GeneratorReturn ==
    /\ call # NoCall
    /\ call.op \in {"generate", "generateModal", "renderField"}
    /\ call' = NoCall
    /\ ret' = EmptyObj
    /\ UNCHANGED <<bridgeVars, pageVars, arrayVars>>

GeneratorNext ==
    \/ CallGenerate
    \/ CallGenerateModal
    \/ CallRenderField
    \/ GeneratorReturn

\* The descriptors of a generate call as the schema alone gives them.
SchemaFields == parseSchema(call.schema, "")

(* C19: after generate, every descriptor's validation bag is the one       *)
(* extracted from the schema whatever keys the hints carry, and hints for  *)
(* names that are no fields of the schema change nothing: generate returns *)
(* and the descriptors are those of the schema's fields, in their order.   *)
C19_HintsNeverChangeConstraints ==
    call.op = "generate" =>
        /\ ~ret.threw
        /\ ObjKeys(ret.fields) = ObjKeys(SchemaFields)
        /\ \A i \in 1..Len(SchemaFields) :
              ret.fields[i].value.validation
                  = extractValidationRules(call.schema.props[i])

\* A descriptor the mapper produced, with or without hints: it has a name.
Named(field) == "name" \in DOMAIN field

\* The kind has a renderer of its own among the exports.
HasStrategy(field) == FieldType(field) \in ElementKinds \ {"text"}

\* The children the object, array and record renderers make of a descriptor.
Children(field) ==
    CASE FieldType(field) = "object" /\ "fields" \in DOMAIN field ->
            [i \in 1..Len(field.fields) |-> NestedField(field, field.fields[i].value)]
      [] FieldType(field) = "array" /\ "itemType" \in DOMAIN field ->
            [i \in 1..Len(FieldValue(field)) |-> ItemField(field, i - 1, FieldValue(field)[i])]
      [] FieldType(field) = "record" /\ "valueType" \in DOMAIN field /\ Len(FieldValue(field)) > 0 ->
            [i \in 1..Len(FieldValue(field)) |->
                ValueField(field, i - 1, FieldValue(field)[i].value)]
      [] FieldType(field) = "record" /\ "valueType" \in DOMAIN field ->
            <<ValueField(field, 0, "")>>
      [] OTHER -> <<>>

\* The markup a rendered descriptor holds for its children.
ChildMarkup(html) ==
    IF "fields" \in DOMAIN html THEN html.fields
    ELSE IF html.input.tag = "array" /\ Len(html.input.items) > 0
                                    /\ "value" \in DOMAIN html.input.items[1]
    THEN [i \in 1..Len(html.input.items) |-> html.input.items[i].value]
    ELSE html.input.items

(* C21: a named descriptor whose kind has no renderer of its own is        *)
(* rendered as the text renderer renders it, without an exception, at top  *)
(* level and as a child of an object, array or record descriptor.          *)
C21_UnknownKindRendersAsText ==
    (call.op = "renderField" /\ Named(call.arg)) =>
        /\ ~HasStrategy(call.arg) => (~ret.threw /\ ret = text(call.arg))
        /\ \A i \in 1..Len(Children(call.arg)) :
              ~HasStrategy(Children(call.arg)[i]) =>
                  /\ ~ret.threw
                  /\ ChildMarkup(ret.html)[i] = text(Children(call.arg)[i]).html

\* The descriptors generate gave to renderForm.
FieldsBeforeRender == GeneratedFields(call.schema, call.options)

(* C20: rendering leaves the descriptors as they were: the descriptor      *)
(* renderField was given is equal after the call to what it was before,    *)
(* rendering it again gives the same markup, and the descriptors generate  *)
(* returns are those it gave to renderForm.                                *)
C20_RenderingLeavesDescriptors ==
    /\ call.op = "renderField" =>
          /\ ret.field = call.arg
          /\ renderField(ret.field) = ret
    /\ call.op = "generate" => ret.fields = FieldsBeforeRender

\* generate has rendered the form of the contact schema: its email and its
\* url descriptor went through the renderers that assign the type.
C20_Witness ==
    /\ call.op = "generate"
    /\ call.schema = ContactSchema
    /\ ~ret.threw
    /\ ret.fields[1].value.type = "email"
    /\ ret.fields[2].value.type = "url"
    /\ ret.html.content[1].input.attributes[1] = [key |-> "type", value |-> "email"]
    /\ ret.html.content[2].input.attributes[1] = [key |-> "type", value |-> "url"]

----------------------------------------------------------------------------
(* The array control in the browser.  templates.array writes the items and *)
(* an inline script that adds and removes items; generateArrayFieldCode    *)
(* writes a script that asks the server for each new item.  An item is its *)
(* index (the index of its name and of its id), the number of click        *)
(* listeners on its remove button, and uid, the order in which the items   *)
(* came to be, which the scripts do not read.                              *)

NoArray ==
    [script |-> "none", phase |-> "none", items |-> <<>>, nextIndex |-> 0,
     made |-> 0, freed |-> {}, inflight |-> <<>>]

Item(uid, index, listeners) == [uid |-> uid, index |-> index, listeners |-> listeners]

\* items.map((item, index) => ...): the items the server rendered
RenderedItems(n) == [i \in 1..n |-> Item(i, i - 1, 0)]

\* The index taken from the number of items present.
addArrayItem_CountsItems(a) ==
    [a EXCEPT !.items = Append(@, Item(a.made + 1, Len(a.items), 1)),
              !.made = @ + 1,
              !.nextIndex = @ + 1]

\* addArrayItem of the inline script: the new item takes nextIndex, its
\* remove button gets its listener, nextIndex++
addArrayItem(a) ==
    [a EXCEPT !.items = Append(@, Item(a.made + 1, a.nextIndex, 1)),
              !.made = @ + 1,
              !.nextIndex = @ + 1]

\* querySelectorAll(...remove buttons...).forEach(addEventListener)
ListenToAll(a) ==
    [a EXCEPT !.items = [i \in 1..Len(a.items) |->
                            [a.items[i] EXCEPT !.listeners = @ + 1]]]

\* The DOMContentLoaded listener of the inline script.
ArrayScriptLoad(a) ==
    LET started == [a EXCEPT !.nextIndex = Len(a.items), !.phase = "ready"]
    IN  ListenToAll(IF Len(a.items) = 0 THEN addArrayItem(started) ELSE started)

\* The body of the script of generateArrayFieldCode, run where it stands.
ArrayFieldCodeRun(a) ==
    ListenToAll([a EXCEPT !.nextIndex = Len(a.items), !.phase = "ready"])

\* request.onload: on success the item the server rendered for the index of
\* the request is appended, nextIndex++, its remove button gets a listener.
Onload(a, k, status) ==
    LET rest == [i \in 1..(Len(a.inflight) - 1) |->
                    IF i < k THEN a.inflight[i] ELSE a.inflight[i + 1]]
    IN  IF status >= 200 /\ status < 400
        THEN [a EXCEPT !.inflight = rest,
                       !.items = Append(@, Item(a.made + 1, a.inflight[k], 1)),
                       !.made = @ + 1,
                       !.nextIndex = @ + 1]
        ELSE [a EXCEPT !.inflight = rest]

\* this.parentElement.remove(), newItem.remove(), item.remove()
RemoveItem(a, k) ==
    [a EXCEPT !.items = [i \in 1..(Len(a.items) - 1) |->
                            IF i < k THEN a.items[i] ELSE a.items[i + 1]],
              !.freed = @ \cup {a.items[k].index}]

Statuses == {200, 500}

ArrayInit == arrayField = NoArray

\* The browser receives a page with an array control of n rendered items.
\* The inline script waits for DOMContentLoaded; the script of
\* generateArrayFieldCode runs at once.
OpenArray ==
    /\ Idle
    /\ arrayField.script = "none"
    /\ \E n \in 0..(MaxItems - 2), script \in {"template", "xhr"} :
        LET parsed == [NoArray EXCEPT !.script = script, !.phase = "parsed",
                                      !.items = RenderedItems(n), !.made = n]
        IN  arrayField' = IF script = "xhr" THEN ArrayFieldCodeRun(parsed) ELSE parsed
    /\ UNCHANGED <<parserVars, bridgeVars, pageVars>>

ArrayLoaded ==
    /\ arrayField.script = "template"
    /\ arrayField.phase = "parsed"
    /\ arrayField' = ArrayScriptLoad(arrayField)
    /\ UNCHANGED <<parserVars, bridgeVars, pageVars>>

\* A click on the add button of the inline script.
ClickAdd ==
    /\ arrayField.script = "template"
    /\ arrayField.phase = "ready"
    /\ arrayField.made < MaxItems
    /\ arrayField' = addArrayItem(arrayField)
    /\ UNCHANGED <<parserVars, bridgeVars, pageVars>>

\* A click on the add button of generateArrayFieldCode: the request goes out
\* with the nextIndex of this moment.
ClickAddRequest ==
    /\ arrayField.script = "xhr"
    /\ Len(arrayField.inflight) < MaxRequests
    /\ arrayField.made + Len(arrayField.inflight) < MaxItems
    /\ arrayField' = [arrayField EXCEPT !.inflight = Append(@, arrayField.nextIndex)]
    /\ UNCHANGED <<parserVars, bridgeVars, pageVars>>

\* The response to one of the requests in flight arrives.
Response ==
    /\ arrayField.script = "xhr"
    /\ \E k \in 1..Len(arrayField.inflight), status \in Statuses :
        arrayField' = Onload(arrayField, k, status)
    /\ UNCHANGED <<parserVars, bridgeVars, pageVars>>

\* A click on the remove button of an item that has a listener.
ClickRemove ==
    /\ arrayField.phase = "ready"
    /\ \E k \in 1..Len(arrayField.items) :
        /\ arrayField.items[k].listeners > 0
        /\ arrayField' = RemoveItem(arrayField, k)
    /\ UNCHANGED <<parserVars, bridgeVars, pageVars>>

\* The page is left.
CloseArray ==
    /\ arrayField.script # "none"
    /\ arrayField' = NoArray
    /\ UNCHANGED <<parserVars, bridgeVars, pageVars>>

ArrayNext ==
    \/ OpenArray
    \/ ArrayLoaded
    \/ ClickAdd
    \/ ClickAddRequest
    \/ Response
    \/ ClickRemove
    \/ CloseArray

\* The indices of the items present are pairwise distinct.
DistinctIndices ==
    \A i, j \in 1..Len(arrayField.items) :
        i # j => arrayField.items[i].index # arrayField.items[j].index

\* No item present has an index that a removal freed.
NoFreedIndexGiven ==
    \A i \in 1..Len(arrayField.items) : arrayField.items[i].index \notin arrayField.freed

\* An item present before and after the step has the index it had.
IndicesKept ==
    \A i \in 1..Len(arrayField.items) : \A j \in 1..Len(arrayField'.items) :
        arrayField.items[i].uid = arrayField'.items[j].uid
            => arrayField.items[i].index = arrayField'.items[j].index

(* C22: with the inline script of the array template, after every add and  *)
(* remove click the items present have pairwise distinct indices, an item  *)
(* present before and after a step keeps its index, and no item present    *)
(* has an index that a removal freed.                                      *)
C22_ArrayItemsKeepStableIndices ==
    [][(arrayField.script = "template" /\ arrayField'.script = "template")
          => (DistinctIndices' /\ NoFreedIndexGiven' /\ IndicesKept)]_vars

\* An item was removed and an item added after it is present.
C22_Witness ==
    /\ arrayField.script = "template"
    /\ arrayField.freed # {}
    /\ \E i \in 1..Len(arrayField.items) :
          \A index \in arrayField.freed : arrayField.items[i].index > index
    /\ Len(arrayField.items) >= 2

(* C27: with the script of generateArrayFieldCode, whatever the order of   *)
(* add clicks and responses, the items present have pairwise distinct      *)
(* indices.                                                                *)
C27_AddedItemsGetDistinctIndices ==
    arrayField.script = "xhr" => DistinctIndices

----------------------------------------------------------------------------
(* The kind of a string node and the order of its checks. *)

\* The string nodes that carry the checks of a node in another order.
Reordered(zodType) ==
    {ZString([i \in 1..Len(zodType.checks) |-> zodType.checks[p[i]]]) :
        p \in Permutations(1..Len(zodType.checks))}

(* C23: a string node gets the kind that every string node with the same   *)
(* checks in another order gets.                                           *)
C23_KindIndependentOfCheckOrder ==
    (call.op = "mapZodTypeToHtmlElement" /\ call.arg.typeName = "ZodString") =>
        \A other \in Reordered(call.arg) :
            mapZodTypeToHtmlElement(other, "").type = ret.type

----------------------------------------------------------------------------
(* The paths the mapper records and the paths the renderer assigns. *)

\* The paths the renderer assigns to the child of the items of an array
\* descriptor, for the indices an item can have.
ItemChildPaths(field, subfield) ==
    {NestedField(ItemField(field, index, ""), subfield).path : index \in 0..(MaxItems - 1)}

(* C24: the path the mapper records for a child is its parent's path with  *)
(* the separator of the parent's kind: for a member of an object the path  *)
(* the object renderer assigns to it, and for a field of the objects of an *)
(* array a path the renderer assigns to that field in an item of the array.*)
C24_MapperPathIsRenderPath ==
    (call.op = "renderField" /\ Named(call.arg)) =>
        /\ (FieldType(call.arg) = "object" /\ "fields" \in DOMAIN call.arg) =>
              \A j \in 1..Len(call.arg.fields) :
                  call.arg.fields[j].value.path
                      = NestedField(call.arg, call.arg.fields[j].value).path
        /\ (FieldType(call.arg) = "array" /\ "itemType" \in DOMAIN call.arg
                                          /\ "fields" \in DOMAIN call.arg.itemType) =>
              \A j \in 1..Len(call.arg.itemType.fields) :
                  call.arg.itemType.fields[j].value.path
                      \in ItemChildPaths(call.arg, call.arg.itemType.fields[j].value)

----------------------------------------------------------------------------
(* The form generate returns and the options it was given. *)

\* The markup of one field unit is that of the field of this name.
UnitNamed(html, name) ==
    IF "fields" \in DOMAIN html THEN html.id = name \o "-fieldset"
    ELSE /\ html.id = "field-" \o name
         /\ IF "attributes" \in DOMAIN html.input
            THEN Get(html.input.attributes, "name") = name
            ELSE html.input.id = name \o "-container"

\* The form carries the options given and the defaults for the others, and
\* one field unit for each property of the schema, in their order.
FormAsOptioned(html, schema, options) ==
    /\ html.attributes.action = (IF "action" \in DOMAIN options THEN options.action ELSE "#")
    /\ html.attributes.method = (IF "method" \in DOMAIN options THEN options.method ELSE "POST")
    /\ html.submitLabel
          = (IF "submitLabel" \in DOMAIN options THEN options.submitLabel ELSE "Submit")
    /\ \A key \in DOMAIN html.classes :
          html.classes[key]
              = (IF "customClasses" \in DOMAIN options /\ key \in DOMAIN options.customClasses
                 THEN options.customClasses[key] ELSE DefaultClasses[key])
    /\ html.attributes.class
          = html.classes.form
            \o (IF "layout" \in DOMAIN options /\ options.layout = "horizontal"
                THEN " zf-horizontal" ELSE "")
    /\ Len(html.content) = Len(schema.keys)
    /\ \A i \in 1..Len(schema.keys) : UnitNamed(html.content[i], schema.keys[i])

----------------------------------------------------------------------------
(* The constraints of the schema and the attributes of the inputs. *)

\* The node inside optional, nullable and refinement wrappers.
RECURSIVE BaseNode(_)
BaseNode(zodType) ==
    IF zodType.typeName \in {"ZodOptional", "ZodNullable"} THEN BaseNode(zodType.innerType)
    ELSE IF zodType.typeName = "ZodEffects" THEN BaseNode(zodType.schema)
    ELSE zodType

\* The attribute holds the value of every check of this kind on the node.
CarriesCheck(attributes, checks, kind, attribute) ==
    \A i \in 1..Len(checks) :
        checks[i].kind = kind =>
            (HasKey(attributes, attribute) /\ Get(attributes, attribute) = checks[i].value)

\* The attributes of an input are those the node declares.
NativeConstraints(attributes, zodType) ==
    /\ HasKey(attributes, "required") <=> zodType.typeName \notin {"ZodOptional", "ZodNullable"}
    /\ BaseNode(zodType).typeName = "ZodString" =>
          /\ CarriesCheck(attributes, BaseNode(zodType).checks, "min", "minlength")
          /\ CarriesCheck(attributes, BaseNode(zodType).checks, "max", "maxlength")
    /\ BaseNode(zodType).typeName = "ZodNumber" =>
          /\ CarriesCheck(attributes, BaseNode(zodType).checks, "min", "min")
          /\ CarriesCheck(attributes, BaseNode(zodType).checks, "max", "max")

\* The inputs of one field unit hold the constraints of its node: the one
\* input of a string or number field, every item input of a list of them.
UnitConstrained(html, zodType) ==
    IF BaseNode(zodType).typeName \in {"ZodString", "ZodNumber"}
    THEN NativeConstraints(html.input.attributes, zodType)
    ELSE (BaseNode(zodType).typeName = "ZodArray"
            /\ BaseNode(zodType).type.typeName \in {"ZodString", "ZodNumber"}) =>
          \A i \in 1..Len(html.input.items) :
              NativeConstraints(html.input.items[i].input.attributes, BaseNode(zodType).type)

\* The hints of the call give values only.
ValueHintsOnly ==
    "fieldOptions" \in DOMAIN call.options =>
        \A i \in 1..Len(call.options.fieldOptions) :
            DOMAIN call.options.fieldOptions[i].value = {"value"}

(* C26: in the form generate returns, the input of a string or number      *)
(* field, and every item input of a list of strings or numbers, carries    *)
(* required exactly when its node is not optional or nullable, minlength   *)
(* and maxlength with the value of the string's min and max checks, and    *)
(* min and max with the value of the number's min and max checks.          *)
C26_ConstraintsBecomeNativeAttributes ==
    (call.op = "generate" /\ ValueHintsOnly /\ ~ret.threw) =>
        \A i \in 1..Len(call.schema.keys) :
            UnitConstrained(ret.html.content[i], call.schema.props[i])

-----------------------------------------------------------------------------
(* Initial visibility against the change handler (generateConditionalLogic). *)

\* C28: for every conditional rule shape (only equals, only notEquals, both,
\* or neither) and every controlling value, the visibility the script sets at
\* initialization equals the visibility its change handler computes for that
\* same controlling value, so a change event that leaves the value unchanged
\* never flips the target.
C28_InitialVisibilityIsHandlerVisibility ==
    Loaded => \A f \in DOMAIN dom : \A i \in RulesOf(f) :
        InitialShow(doc.rules[i], ControlValue(ControlOf(f, i)))
            = ShouldShow(doc.rules[i], ControlValue(ControlOf(f, i)))

-----------------------------------------------------------------------------
(* Radio groups as controlling fields (generateConditionalLogic).           *)

\* The predicate of a rule on a value.
HoldsFor(rule, value) ==
    /\ rule.equals # Undef => value = rule.equals
    /\ rule.notEquals # Undef => value # rule.notEquals

\* A target is shown while it is displayed and its inputs are enabled.
Shown(field) == Visible(field) /\ Enabled(field)

\* The user has just selected an option of the controlling field of rule i
\* of form f, a field of the given kind whose rule has been initialized.
Selected(f, i, kind) ==
    /\ Change
    /\ f \in DOMAIN dom /\ i \in RulesOf(f) /\ ListenersOf(f, i) # {}
    /\ ControlOf(f, i).type = kind
    /\ ControlOf(f, i)'.value # ControlOf(f, i).value

\* C29: when the controlling field is a radio group, the predicate is
\* evaluated against the currently selected option: after the user selects
\* option v the target is shown exactly when the rule holds for v, whichever
\* radio input of the group comes first in the document.
C29_RadioRuleUsesSelectedOption ==
    [][\A f \in {1, 2} : \A i \in 1..Len(doc.rules) :
        Selected(f, i, "radio") =>
            (Shown(TargetOf(f, i)') <=> HoldsFor(doc.rules[i], Str(ControlOf(f, i)'.value)))]_vars

-----------------------------------------------------------------------------
(* The selector of the script against the form of the same call.            *)

\* The class names forms are given here.
ClassNames == {"zf-form", "my-custom-form", "zf-horizontal"}

\* element.classList: the names of a class attribute, which holds one name
\* or two with a space between them.
ClassList(class) ==
    {name \in ClassNames :
        \/ class = name
        \/ \E other \in ClassNames :
              class = name \o " " \o other \/ class = other \o " " \o name}

\* element.matches(selector), for '#id' and '.class'
Matches(attributes, selector) ==
    IF selector.by = "id"
    THEN "id" \in DOMAIN attributes /\ attributes.id = selector.name
    ELSE selector.name \in ClassList(attributes.class)

\* The form element a call has returned, inside the modal or alone.
ReturnedForm == IF call.op = "generateModal" THEN ret.html.formHtml ELSE ret.html

\* C30: for every combination of the options id and customClasses.form, the
\* selector the generated behaviour script uses to find its form matches the
\* form element that the same generate call rendered, so the submit
\* validation and the conditional rules are attached whenever a form is
\* generated.
C30_ScriptSelectorMatchesForm ==
    (call.op \in {"generate", "generateModal"} /\ ~ret.threw) =>
        Matches(ReturnedForm.attributes, ret.scripts.formSelector)

----------------------------------------------------------------------------
(* Specifications.  JavaScript runs one call at a time, so a call starts   *)
(* only when none is in progress.  SpecParser, SpecBridge and SpecPage are  *)
(* the components on their own.                                            *)

Init == ParserInit /\ BridgeInit /\ PageInit /\ ArrayInit

Next == ParserNext \/ BridgeNext \/ PageNext \/ GeneratorNext \/ ArrayNext

Spec == Init /\ [][Next]_vars

SpecParser == Init /\ [][ParserNext]_vars

SpecBridge == Init /\ [][BridgeNext]_vars

SpecPage == Init /\ [][PageNext]_vars
SpecGenerator == Init /\ [][GeneratorNext]_vars
SpecArray == Init /\ [][ArrayNext]_vars

====
